---- MODULE Spec2Model ----
(***************************************************************************)
(* Vote ledger of the moltbook API: VoteService.vote and its helpers,      *)
(* running as concurrent async calls against the relational store.  Every  *)
(* `await queryOne(...)` of the service is one atomic statement of the     *)
(* store; callers interleave between statements.                           *)
(*                                                                         *)
(* Rate limiter of the moltbook API: the in-memory sliding-window store of *)
(* middleware/rateLimit.js, its periodic cleanup and the middleware that   *)
(* rateLimit() returns.  Time is Date.now() in milliseconds; a synchronous *)
(* function runs in one step, an `await` ends a step.                      *)
(*                                                                         *)
(* Comment threads: CommentService.buildCommentTree over a flat list, and  *)
(* CommentService.create against the comments table.  Request pipeline:    *)
(* the order in which the application mounts the limiter, requireAuth, the *)
(* route handlers and the error handler.                                   *)
(***************************************************************************)
EXTENDS Integers, Sequences, FiniteSets, Bags, TLC

\* ------------------------------------------------------------------ bounds
MaxCalls == 3
MaxFaults == 1
MaxTargets == 1
MaxMax == 2        \* largest limit.max a configuration carries
MaxTicks == 2      \* number of times the clock is seen to advance
MaxChecks == 4     \* number of checkLimit calls
MaxLen == 3        \* longest flat comment list drawn for buildCommentTree
MaxBuilds == 2     \* number of buildCommentTree calls on one list
MaxCreates == 2    \* number of CommentService.create calls
MaxRows == 3       \* most comments of one post in the table getByPost reads
MaxInserts == 1    \* rows added to a table while statistics are read
MaxSubCalls == 3   \* number of SubmoltService calls

\* --------------------------------------------------------------- constants
VOTE_UP == 1
VOTE_DOWN == -1

Callers == {"r1", "r2"}
Agents == {"a1", "a2"}
PostIds == {"i1"}
CommentIds == {"i2"}
Ids == PostIds \cup CommentIds
TargetTypes == {"post", "comment", "other"}
Values == {VOTE_UP, VOTE_DOWN}

\* rows of posts / comments that exist in the store (id -> author_id)
PostAuthor == [i \in PostIds |-> "a1"]
CommentAuthor == [i \in CommentIds |-> "a1"]

\* names VoteService binds from '../config/database'
VoteServiceImports == {"queryOne", "transaction"}

NoVote == [id |-> 0, value |-> 0]
NoArg == [agentId |-> "-", targetId |-> "-", targetType |-> "-", value |-> 0]
NoLocals == [existingVote |-> NoVote, action |-> "-", scoreDelta |-> 0, karmaDelta |-> 0]
NoGhost == [pre |-> 0, clean |-> TRUE, solo |-> TRUE, s0 |-> 0, k0 |-> 0,
            dScore |-> 0, dKarma |-> 0]
NoFirst == [owner |-> "-", arg |-> NoArg, action |-> "-", pre |-> 0, s0 |-> 0, k0 |-> 0]
NoGv == [status |-> "-", map |-> << >>]

\* rateLimit.js: horizon and period of the cleanup timer, ms per second
CLEANUP_HORIZON_MS == 3600000
CLEANUP_INTERVAL_MS == 300000
MS_PER_SECOND == 1000

\* the limit types of config.rateLimits that the exported limiters use
LimitTypes == {"requests", "comments"}

\* limit.window (seconds) a configuration may give each limit type: the
\* documented minute and hour, and a window of two hours
Windows == [t \in LimitTypes |-> IF t = "requests" THEN {60} ELSE {3600, 7200}]

\* req.token / req.ip of a request that carries none
Null == "null"

NoResult == [allowed |-> FALSE, remaining |-> -1, limit |-> -1, resetAt |-> -1,
             retryAfter |-> -1]
NoCheck == [key |-> "-", type |-> "-", at |-> -1]

\* the requests the middleware is seen to serve, in their order of arrival
Requests == {"q1", "q2", "q3"}

Arrival == [q \in Requests |-> IF q = "q1" THEN 1 ELSE IF q = "q2" THEN 2 ELSE 3]

\* no error: what next is called with when it is called without one
NoError == [name |-> "-", message |-> "-", statusCode |-> 0, code |-> "-",
            hint |-> << >>, retryAfter |-> -1]

NoReq == [token |-> "-", ip |-> "-"]
NoHeaders == [limit |-> -1, remaining |-> -1, reset |-> -1, retryAfter |-> -1]

\* a request that has not arrived
NoMw == [pc |-> "idle", req |-> NoReq, type |-> "-", skip |-> FALSE, key |-> "-",
         at |-> -1, result |-> NoResult, headers |-> NoHeaders,
         rateLimit |-> NoResult, nextArgs |-> << >>, handled |-> 0]

VARIABLES
  votes,      \* table votes: set of rows [id, agent_id, target_id, target_type, value]
  postScore,  \* posts.score, by post id
  comments,   \* comments.(score, upvotes, downvotes), by comment id
  karma,      \* agents.karma, by agent id
  pc,         \* position of each in-flight vote() call
  arg,        \* parameters of each call
  loc,        \* locals of each call: existingVote, action, scoreDelta, karmaDelta
  err,        \* message of the error the call threw, "none" while it has thrown nothing
  calls,      \* number of vote() calls started
  faults,     \* number of store statements that were rejected
  gh,         \* history: per call, the state it started from and what it applied
  first,      \* history: the call that ran alone just before the running one
  okCalls,    \* history: bag of the calls that returned normally
  gv          \* what the getVotes() call of the last step resolved to or threw

voteVars == <<votes, postScore, comments, karma, pc, arg, loc, err, calls,
              faults, gh, first, okCalls, gv>>

VARIABLES
  rateLimits, \* config.rateLimits: limit type -> {max, window}
  storage,    \* the Map `storage`: key -> array of timestamps, present keys only
  now,        \* Date.now()
  nextSweep,  \* instant from which the cleanup timer is due
  ticks,      \* number of clock advances seen
  checks,     \* number of checkLimit calls made
  last,       \* the checkLimit call of the last step: key, limit type, instant
  result,     \* what that call returned
  admits,     \* history: per key, the instants of every admitted check
  seen,       \* history: per key, the checks made of it: how many (counted up
              \* to MaxMax + 1) and the instant of the first
  pend,       \* history: per key, the least resetAt a denial reported since
              \* the key's last admitted check
  unswept,    \* history: the Map as the same checks leave it when the cleanup
              \* timer never fires
  mw          \* the requests inside the middleware rateLimit() returned: position,
              \* req, limit type, skip(req), key, the local result and the instant
              \* it was computed, headers set, req.rateLimit, the calls of next

rlVars == <<rateLimits, storage, now, nextSweep, ticks, checks, last, result,
            admits, seen, pend, unswept, mw>>

VARIABLES
  flat,       \* the array passed to buildCommentTree: comments in query order
  tree,       \* what buildCommentTree left: the returned array and the
              \* replies array of every comment, as ids
  builds      \* number of buildCommentTree calls made on flat

treeVars == <<flat, tree, builds>>

VARIABLES
  commentRows,  \* the comments table: rows in insertion order
  commentCount, \* posts.comment_count
  cc,           \* the running CommentService.create calls
  creates       \* number of create calls begun

cmVars == <<commentRows, commentCount, cc, creates>>

VARIABLES
  http        \* the requests travelling the middleware stack of the app

httpVars == <<http>>

VARIABLES
  cachedStats,   \* StatsService: the module's cachedStats, null or a stats object
  lastCacheTime, \* the module's lastCacheTime
  sc,            \* the running getStats calls: position, the local now, the return
  statClock,     \* Date.now() as getStats reads it
  statDb,        \* the row counts the four COUNT(*) queries read
  statTicks,     \* number of times the clock was seen to advance
  statCalls      \* number of getStats calls begun

statVars == <<cachedStats, lastCacheTime, sc, statClock, statDb, statTicks, statCalls>>

VARIABLES
  submolts,      \* table submolts: id -> [name, subscriber_count], present ids only
  moderators,    \* table submolt_moderators: set of rows [submolt_id, agent_id, role]
  subscriptions, \* table subscriptions: set of rows [submolt_id, agent_id]
  sm,            \* the running SubmoltService calls: position, arguments, locals
  subCalls       \* number of SubmoltService calls begun

subVars == <<submolts, moderators, subscriptions, sm, subCalls>>

vars == <<voteVars, rlVars, treeVars, cmVars, httpVars, statVars, subVars>>

\* ------------------------------------------------------------ store reads
Rows(vs, agentId, targetId, targetType) ==
  {r \in vs : r.agent_id = agentId /\ r.target_id = targetId /\ r.target_type = targetType}

\* value stored for a triple, 0 when there is no row
Stored(vs, agentId, targetId, targetType) ==
  LET rs == Rows(vs, agentId, targetId, targetType)
  IN IF rs = {} THEN 0 ELSE (CHOOSE r \in rs : TRUE).value

getTargetAnyType(targetId, targetType) ==
  IF targetType = "post"
    THEN IF targetId \in PostIds
           THEN [kind |-> "ok", author_id |-> PostAuthor[targetId]]
           ELSE [kind |-> "NotFoundError: Post not found", author_id |-> "-"]
  ELSE IF targetId \in CommentIds
    THEN [kind |-> "ok", author_id |-> CommentAuthor[targetId]]
    ELSE [kind |-> "NotFoundError: Comment not found", author_id |-> "-"]

\* VoteService.getTarget
getTarget(targetId, targetType) ==
  IF targetType = "post"
    THEN IF targetId \in PostIds
           THEN [kind |-> "ok", author_id |-> PostAuthor[targetId]]
           ELSE [kind |-> "NotFoundError: Post not found", author_id |-> "-"]
  ELSE IF targetType = "comment"
    THEN IF targetId \in CommentIds
           THEN [kind |-> "ok", author_id |-> CommentAuthor[targetId]]
           ELSE [kind |-> "NotFoundError: Comment not found", author_id |-> "-"]
  ELSE [kind |-> "BadRequestError: Invalid target type", author_id |-> "-"]

IsSelfVoteOff(target, agentId) == FALSE

\* if (target.author_id === agentId)
IsSelfVote(target, agentId) == target.author_id = agentId

\* SELECT id, value FROM votes WHERE agent_id = $1 AND target_id = $2 AND target_type = $3
SelectExisting(vs, agentId, targetId, targetType) ==
  LET rs == Rows(vs, agentId, targetId, targetType)
  IN IF rs = {} THEN NoVote
     ELSE LET r == CHOOSE x \in rs : \A y \in rs : x.id <= y.id
          IN [id |-> r.id, value |-> r.value]

DecideRemoveSign(existingVote, value) ==
  IF existingVote # NoVote
    THEN IF existingVote.value = value
           THEN [action |-> "removed", scoreDelta |-> value, karmaDelta |-> value]
           ELSE [action |-> "changed", scoreDelta |-> value * 2, karmaDelta |-> value * 2]
    ELSE [action |-> IF value = VOTE_UP THEN "upvoted" ELSE "downvoted",
          scoreDelta |-> value, karmaDelta |-> value]

DecideFlipOnce(existingVote, value) ==
  IF existingVote # NoVote
    THEN IF existingVote.value = value
           THEN [action |-> "removed", scoreDelta |-> -value, karmaDelta |-> -value]
           ELSE [action |-> "changed", scoreDelta |-> value, karmaDelta |-> value]
    ELSE [action |-> IF value = VOTE_UP THEN "upvoted" ELSE "downvoted",
          scoreDelta |-> value, karmaDelta |-> value]

\* the branch taken on existingVote: action, scoreDelta, karmaDelta
Decide(existingVote, value) ==
  IF existingVote # NoVote
    THEN IF existingVote.value = value
           THEN [action |-> "removed", scoreDelta |-> -value, karmaDelta |-> -value]
           ELSE [action |-> "changed", scoreDelta |-> value * 2, karmaDelta |-> value * 2]
    ELSE [action |-> IF value = VOTE_UP THEN "upvoted" ELSE "downvoted",
          scoreDelta |-> value, karmaDelta |-> value]

\* ----------------------------------------------------------- store writes
UniqueViolationOff(vs, agentId, targetId, targetType) == FALSE

\* UNIQUE(agent_id, target_id, target_type)
UniqueViolation(vs, agentId, targetId, targetType) ==
  Rows(vs, agentId, targetId, targetType) # {}

\* INSERT INTO votes (agent_id, target_id, target_type, value)
InsertVote(vs, id, agentId, targetId, targetType, value) ==
  vs \cup {[id |-> id, agent_id |-> agentId, target_id |-> targetId,
            target_type |-> targetType, value |-> value]}

DeleteVoteNone(vs, id) == vs

\* DELETE FROM votes WHERE id = $1
DeleteVote(vs, id) == {r \in vs : r.id # id}

\* UPDATE votes SET value = $2 WHERE id = $1
UpdateVote(vs, id, value) ==
  {IF r.id = id THEN [r EXCEPT !.value = value] ELSE r : r \in vs}

\* CommentService.updateScore(commentId, delta, isUpvote)
CommentUpdateScore(c, delta, isUpvote) ==
  LET voteChange == IF delta > 0 THEN 1 ELSE -1
  IN IF isUpvote
       THEN [c EXCEPT !.score = @ + delta, !.upvotes = @ + voteChange]
       ELSE [c EXCEPT !.score = @ + delta, !.downvotes = @ + voteChange]

\* PostService.updateScore(postId, delta)
PostUpdateScore(s, delta) == s + delta

\* AgentService.updateKarma(agentId, delta)
UpdateKarma(k, delta) == k + delta

\* queryAll(SELECT target_id, value FROM votes WHERE agent_id = $1
\*          AND target_type = <type> AND target_id = ANY($2))
QueryVotes(vs, agentId, targetType, ids) ==
  {r \in vs : r.agent_id = agentId /\ r.target_type = targetType /\ r.target_id \in ids}

\* votes.forEach(v => results.set(v.target_id, v.value))
SetAll(results, rows) ==
  [i \in DOMAIN results \cup {r.target_id : r \in rows} |->
     IF \E r \in rows : r.target_id = i
       THEN (CHOOSE r \in rows : r.target_id = i).value
       ELSE results[i]]

\* VoteService.getVotes(agentId, targets): the Map it resolves to, or the
\* error it rejects with.  queryAll is not among the names the service binds,
\* so evaluating it throws a ReferenceError.
getVotes(vs, agentId, targets) ==
  LET idx(t) == {k \in 1..Len(targets) : targets[k].targetType = t}
      postIds == {targets[k].targetId : k \in idx("post")}
      commentIds == {targets[k].targetId : k \in idx("comment")}
      bound == "queryAll" \in VoteServiceImports
      empty == [i \in {} |-> 0]
      r1 == IF postIds # {} THEN SetAll(empty, QueryVotes(vs, agentId, "post", postIds))
            ELSE empty
      r2 == IF commentIds # {} THEN SetAll(r1, QueryVotes(vs, agentId, "comment", commentIds))
            ELSE r1
  IN IF Len(targets) = 0 THEN [status |-> "ok", map |-> empty]
     ELSE IF (postIds # {} \/ commentIds # {}) /\ ~bound
       THEN [status |-> "ReferenceError", map |-> empty]
     ELSE [status |-> "ok", map |-> r2]

\* ------------------------------------------------------------------ state
TargetScore(ps, cs, targetId, targetType) ==
  IF targetType = "post" /\ targetId \in PostIds THEN ps[targetId]
  ELSE IF targetType = "comment" /\ targetId \in CommentIds THEN cs[targetId].score
  ELSE 0

AuthorOf(a) == getTarget(a.targetId, a.targetType).author_id

SameTriple(a, b) ==
  /\ a.agentId = b.agentId
  /\ a.targetId = b.targetId
  /\ a.targetType = b.targetType

\* the request slots, in the order a new request takes a free one
Slot == [p \in Callers |-> IF p = "r1" THEN 1 ELSE 2]

Idle(p) == pc[p] \in {"idle", "done", "failed"}

Quiescent == \A p \in Callers : Idle(p)

\* uuid_generate_v4(): a key no row carries and no running call still holds
FreshId ==
  LET used == {r.id : r \in votes} \cup {loc[p].existingVote.id : p \in Callers}
  IN CHOOSE n \in 1..(Cardinality(used) + 1) : n \notin used

VoteInit ==
  /\ votes = {}
  /\ postScore = [i \in PostIds |-> 0]
  /\ comments = [i \in CommentIds |-> [score |-> 0, upvotes |-> 0, downvotes |-> 0]]
  /\ karma = [a \in Agents |-> 0]
  /\ pc = [p \in Callers |-> "idle"]
  /\ arg = [p \in Callers |-> NoArg]
  /\ loc = [p \in Callers |-> NoLocals]
  /\ err = [p \in Callers |-> "none"]
  /\ calls = 0
  /\ faults = 0
  /\ gh = [p \in Callers |-> NoGhost]
  /\ first = NoFirst
  /\ okCalls = EmptyBag
  /\ gv = NoGv

\* the limits the exported limiters document: 100/min and 50/hr
DocumentedLimits ==
  [t \in LimitTypes |-> IF t = "requests" THEN [max |-> 100, window |-> 60]
                        ELSE [max |-> 50, window |-> 3600]]

\* module load of rateLimit.js under configuration c: an empty Map, the
\* cleanup timer armed one period ahead
RateInit(c) ==
  /\ rateLimits = c
  /\ storage = << >>
  /\ now = 0
  /\ nextSweep = CLEANUP_INTERVAL_MS
  /\ ticks = 0
  /\ checks = 0
  /\ last = NoCheck
  /\ result = NoResult
  /\ admits = << >>
  /\ seen = << >>
  /\ pend = << >>
  /\ unswept = << >>
  /\ mw = [q \in Requests |-> NoMw]

\* parent_id of a top-level comment (null)
NullId == 0

NoTree == [roots |-> << >>, replies |-> << >>]

\* buildCommentTree has not been called on the list
TreeInit(list) ==
  /\ flat = list
  /\ tree = NoTree
  /\ builds = 0

\* CommentService.create: longest content, deepest reply
MAX_CONTENT == 10000
MAX_DEPTH == 10

\* posts that exist, and a post id that names no post
ThreadPosts == {"p1", "p2"}
MissingPost == "p9"

\* a comment id that names no comment
MissingId == -1

\* callers of CommentService.create
Creators == {"k1", "k2"}

\* a create call that has not begun: position, postId, parentId, the local
\* depth, the error thrown, the id of the comment returned
NoCreate == [pc |-> "idle", postId |-> "-", parentId |-> NullId, depth |-> 0,
             err |-> NoError, id |-> NullId]

\* a thread of one post that has reached the deepest level: each comment
\* replies to the one before it
DeepThread ==
  [k \in 1..(MAX_DEPTH + 1) |->
     [id |-> k, post_id |-> "p1", parent_id |-> IF k = 1 THEN NullId ELSE k - 1,
      depth |-> k - 1]]

CommentStores == {<< >>, DeepThread}

\* the comments table holding rows, each post counting its own
CommentInit(rows) ==
  /\ commentRows = rows
  /\ commentCount =
       [p \in ThreadPosts |-> Cardinality({k \in 1..Len(rows) : rows[k].post_id = p})]
  /\ cc = [p \in Creators |-> NoCreate]
  /\ creates = 0

\* a request the app has not received: position, the request as it came,
\* req.token and req.agent, the middleware and handlers run for it in order,
\* the error passed to the error handler, the response sent
NoHttpReq == [path |-> "-", authorization |-> << >>, ip |-> "-", body |-> "-"]
NoRes == [status |-> 0, body |-> [success |-> FALSE]]
NoHttp == [pc |-> "new", req |-> NoHttpReq, token |-> Null, agent |-> Null,
           trace |-> << >>, err |-> NoError, res |-> NoRes]

\* no request received
HttpInit ==
  /\ http = [q \in Requests |-> NoHttp]

\* StatsService: 5 minutes
CACHE_DURATION == 300000

\* callers of StatsService.getStats, and a call that has not begun
StatCallers == {"s1", "s2"}
\* cachedStats before the first refresh (null), and no row from a query
NoStats == [agentCount |-> -1, postCount |-> -1, commentCount |-> -1, submoltCount |-> -1]
NoCountRow == [count |-> -1]
NoStatCall == [pc |-> "idle", call |-> 0, now |-> 0, ret |-> NoStats]

\* the counts of an empty database
NoRows == [agents |-> 0, posts |-> 0, comments |-> 0, submolts |-> 0]

\* let cachedStats = null; let lastCacheTime = 0
StatInit ==
  /\ cachedStats = NoStats
  /\ lastCacheTime = 0
  /\ sc = [p \in StatCallers |-> NoStatCall]
  /\ statClock = 0
  /\ statDb = NoRows
  /\ statTicks = 0
  /\ statCalls = 0

\* callers of SubmoltService, and a call that has not begun: position, the
\* method, its arguments, the rows its SELECTs returned, what it returned
\* or threw; call numbers a call that returned at once, so that two such calls
\* in a row are told apart
SubCallers == {"u1", "u2"}
NoSubCall ==
  [pc |-> "idle", call |-> 0, op |-> "-", submoltId |-> NullId, agentId |-> "-", name |-> "-",
   target |-> "-", role |-> "-", ret |-> "-", err |-> NoError]

\* the three tables as given, no call running
SubmoltInit(tables) ==
  /\ submolts = tables.submolts
  /\ moderators = tables.moderators
  /\ subscriptions = tables.subscriptions
  /\ sm = [p \in SubCallers |-> NoSubCall]
  /\ subCalls = 0

\* no submolt created
NoSubmolts == [submolts |-> << >>, moderators |-> {}, subscriptions |-> {}]

\* everything outside the vote ledger and the limiter, before any call
RestInit == HttpInit /\ StatInit /\ SubmoltInit(NoSubmolts)

Init ==
  /\ VoteInit /\ RateInit(DocumentedLimits)
  /\ TreeInit(<< >>) /\ CommentInit(<< >>) /\ RestInit

\* Caller q takes a step of its call on triple a and ends at position pcq with
\* locals locq.  The outcome of a call that has returned or thrown is visible
\* in the state that follows its last step and is dropped at the next step of
\* another caller; a running call records whether its triple was touched.
Step(q, a, pcq, locq, errq, ghq, firstq) ==
  /\ pc' = [p \in Callers |-> IF p = q THEN pcq ELSE IF Idle(p) THEN "idle" ELSE pc[p]]
  /\ arg' = [p \in Callers |-> IF p = q THEN a ELSE IF Idle(p) THEN NoArg ELSE arg[p]]
  /\ loc' = [p \in Callers |-> IF p = q THEN locq ELSE IF Idle(p) THEN NoLocals ELSE loc[p]]
  /\ err' = [p \in Callers |-> IF p = q THEN errq ELSE IF Idle(p) THEN "none" ELSE err[p]]
  /\ gh' = [p \in Callers |->
              IF p = q THEN ghq
              ELSE IF Idle(p) THEN NoGhost
              ELSE [gh[p] EXCEPT !.clean = @ /\ ~SameTriple(a, arg[p]),
                                 !.solo = FALSE, !.s0 = 0, !.k0 = 0]]
  /\ first' = IF firstq.owner = q THEN firstq ELSE NoFirst
  /\ gv' = NoGv
  /\ UNCHANGED <<rlVars, treeVars, cmVars, httpVars, statVars, subVars>>

\* ---------------------------------------------------------------- actions
\* vote({targetId, targetType, agentId, value}) up to the branch on
\* existingVote: getTarget, the self-vote check, the SELECT on votes.  The
\* posts and comments that getTarget reads never change, so its read is taken
\* together with the SELECT that follows it.
VoteBegin(p, agentId, targetId, targetType, value) ==
  LET target == getTarget(targetId, targetType)
      a == [agentId |-> agentId, targetId |-> targetId,
            targetType |-> targetType, value |-> value]
      thrown == IF target.kind # "ok" THEN target.kind
                ELSE IF IsSelfVote(target, agentId) THEN "BadRequestError: Cannot vote on your own content"
                ELSE "none"
      e == SelectExisting(votes, agentId, targetId, targetType)
      d == Decide(e, value)
      l == [existingVote |-> e, action |-> d.action,
            scoreDelta |-> d.scoreDelta, karmaDelta |-> d.karmaDelta]
      own == [NoGhost EXCEPT
                !.pre = Stored(votes, agentId, targetId, targetType),
                !.s0 = TargetScore(postScore, comments, targetId, targetType),
                !.k0 = karma[target.author_id]]
      mine == IF Quiescent /\ \E q \in Callers : pc[q] = "done" /\ gh[q].solo
                THEN LET q == CHOOSE c \in Callers : pc[c] = "done" /\ gh[c].solo
                     IN [owner |-> p, arg |-> arg[q], action |-> loc[q].action,
                         pre |-> gh[q].pre, s0 |-> gh[q].s0, k0 |-> gh[q].k0]
                ELSE NoFirst
  IN /\ Idle(p)
     /\ \A q \in Callers : Idle(q) => Slot[p] <= Slot[q]
     /\ IF thrown # "none"
          THEN /\ Step(p, NoArg, "failed", NoLocals, thrown, NoGhost, NoFirst)
               /\ calls' = calls
          ELSE /\ calls < MaxCalls
               /\ calls' = calls + 1
               /\ Step(p, a, "write", l, "none", own, mine)
     /\ UNCHANGED <<votes, postScore, comments, karma, faults, okCalls>>

\* the DELETE / UPDATE / INSERT on votes
VoteWrite(p) ==
  LET a == arg[p]
      l == loc[p]
      violation == /\ l.action \in {"upvoted", "downvoted"}
                   /\ UniqueViolation(votes, a.agentId, a.targetId, a.targetType)
  IN /\ pc[p] = "write"
     /\ IF violation
          THEN /\ Step(p, a, "failed", l, "UniqueViolation", gh[p], NoFirst)
               /\ votes' = votes
          ELSE /\ Step(p, a, "score", l, "none", gh[p], first)
               /\ votes' = IF l.action = "removed"
                             THEN DeleteVote(votes, l.existingVote.id)
                           ELSE IF l.action = "changed"
                             THEN UpdateVote(votes, l.existingVote.id, a.value)
                           ELSE InsertVote(votes, FreshId, a.agentId, a.targetId,
                                           a.targetType, a.value)
     /\ UNCHANGED <<postScore, comments, karma, calls, faults, okCalls>>

\* PostService.updateScore / CommentService.updateScore
VoteScore(p) ==
  LET a == arg[p]
      l == loc[p]
  IN /\ pc[p] = "score"
     /\ IF a.targetType = "post"
          THEN /\ postScore' = [postScore EXCEPT
                                  ![a.targetId] = PostUpdateScore(@, l.scoreDelta)]
               /\ comments' = comments
          ELSE /\ comments' = [comments EXCEPT
                                 ![a.targetId] = CommentUpdateScore(@, l.scoreDelta,
                                                                    a.value = VOTE_UP)]
               /\ postScore' = postScore
     /\ Step(p, a, "karma", l, "none",
             [gh[p] EXCEPT !.dScore =
                TargetScore(postScore', comments', a.targetId, a.targetType)
                - TargetScore(postScore, comments, a.targetId, a.targetType)],
             first)
     /\ UNCHANGED <<votes, karma, calls, faults, okCalls>>

\* AgentService.updateKarma(target.author_id, karmaDelta), then
\* AgentService.findById(target.author_id) and the return
VoteKarma(p) ==
  LET a == arg[p]
      l == loc[p]
      author == AuthorOf(a)
  IN /\ pc[p] = "karma"
     /\ karma' = [karma EXCEPT ![author] = UpdateKarma(@, l.karmaDelta)]
     /\ Step(p, a, "done", l, "none",
             [gh[p] EXCEPT !.dKarma = karma'[author] - karma[author]], first)
     /\ okCalls' = okCalls (+) SetToBag({a})
     /\ UNCHANGED <<votes, postScore, comments, calls, faults>>

\* the store rejects the score update or the karma update: query() lets the
\* rejection of db.query through and vote() has no handler for it
VoteFault(p) ==
  /\ pc[p] \in {"score", "karma"}
  /\ faults < MaxFaults
  /\ faults' = faults + 1
  /\ Step(p, arg[p], "failed", loc[p], "DatabaseError", gh[p], NoFirst)
  /\ UNCHANGED <<votes, postScore, comments, karma, calls, okCalls>>

\* the (targetId, targetType) pairs requests name
TargetRefs ==
  {[targetId |-> "i1", targetType |-> "post"],
   [targetId |-> "i2", targetType |-> "comment"],
   [targetId |-> "i2", targetType |-> "post"],
   [targetId |-> "i1", targetType |-> "other"]}

TargetLists == UNION {[1..n -> TargetRefs] : n \in 0..MaxTargets}

\* VoteService.getVotes(agentId, targets)
GetVotes(agentId, targets) ==
  LET r == getVotes(votes, agentId, targets)
  IN /\ gv' = [status |-> r.status, map |-> r.map]
     /\ UNCHANGED <<votes, postScore, comments, karma, pc, arg, loc, err,
                    calls, faults, gh, first, okCalls>>
     /\ UNCHANGED <<rlVars, treeVars, cmVars, httpVars, statVars, subVars>>

Next ==
  \/ \E p \in Callers, a \in Agents, t \in TargetRefs, v \in Values :
       VoteBegin(p, a, t.targetId, t.targetType, v)
  \/ \E p \in Callers : VoteWrite(p)
  \/ \E p \in Callers : VoteScore(p)
  \/ \E p \in Callers : VoteKarma(p)

Spec == Init /\ [][Next]_vars

\* vote calls and the batch reads of the listings
NextRead ==
  \/ Next
  \/ \E a \in Agents, ts \in TargetLists : GetVotes(a, ts)

ReadSpec == Init /\ [][NextRead]_vars

\* the same calls against a store that may reject a statement
NextFault ==
  \/ Next
  \/ \E p \in Callers : VoteFault(p)

FaultSpec == Init /\ [][NextFault]_vars

\* values a caller of vote() itself can pass: the two the wrappers pass, and
\* numbers that are neither
DirectValues == Values \cup {0, 2}

\* vote({targetId, targetType, agentId, value}) called directly
NextDirect ==
  \/ \E p \in Callers, a \in Agents \ {"a1"}, t \in TargetRefs, v \in DirectValues :
       VoteBegin(p, a, t.targetId, t.targetType, v)
  \/ \E p \in Callers : VoteWrite(p)
  \/ \E p \in Callers : VoteScore(p)
  \/ \E p \in Callers : VoteKarma(p)

DirectSpec == Init /\ [][NextDirect]_vars

\* vote calls made one at a time: a call starts only when no other is running
NextSerial ==
  \/ \E p \in Callers, a \in Agents, t \in TargetRefs, v \in Values :
       Quiescent /\ VoteBegin(p, a, t.targetId, t.targetType, v)
  \/ \E p \in Callers : VoteWrite(p)
  \/ \E p \in Callers : VoteScore(p)
  \/ \E p \in Callers : VoteKarma(p)

SerialSpec == Init /\ [][NextSerial]_vars

\* ------------------------------------------------------------------ claims
\* ------------------------------------------------------------ rate limiter
\* `x || ...`: null, undefined and the empty string are falsy
Truthy(x) == x # Null /\ x # ""

\* getKey(req, limitType)
getKeyByAddress(req, limitType) ==
  LET identifier == IF Truthy(req.ip) THEN req.ip
                    ELSE IF Truthy(req.token) THEN req.token
                    ELSE "anonymous"
  IN "rl:" \o limitType \o ":" \o identifier

getKey(req, limitType) ==
  LET identifier == IF Truthy(req.token) THEN req.token
                    ELSE IF Truthy(req.ip) THEN req.ip
                    ELSE "anonymous"
  IN "rl:" \o limitType \o ":" \o identifier

\* storage.get(key) || []
Entries(st, key) == IF key \in DOMAIN st THEN st[key] ELSE << >>

\* entries.filter(e => e.timestamp >= from); an entry is its timestamp
FilterNothing(entries, from) == entries

Filter(entries, from) == SelectSeq(entries, LAMBDA e : e >= from)

\* storage.set(key, entries)
MapSetAlone(st, key, entries) == [k \in {key} |-> entries]

MapSet(st, key, entries) ==
  [k \in DOMAIN st \cup {key} |-> IF k = key THEN entries ELSE st[k]]

\* Math.min(...entries.map(e => e.timestamp)) of a non-empty array
Oldest(entries) ==
  CHOOSE m \in {entries[i] : i \in 1..Len(entries)} :
    \A i \in 1..Len(entries) : m <= entries[i]

\* Math.ceil(x / d) for d > 0
Ceil(x, d) == -((-x) \div d)

\* Math.max(0, x)
AtLeastZero(x) == IF x > 0 THEN x ELSE 0

\* now - (limit.window * 1000)
WindowStart(limit, t) == t - limit.window * MS_PER_SECOND

\* count < limit.max
Allowed(count, limit) == count < limit.max

\* Math.max(0, limit.max - count - (allowed ? 1 : 0))
Remaining(count, limit, allowed) ==
  AtLeastZero(limit.max - count - (IF allowed THEN 1 ELSE 0))

\* resetAt.getTime(): oldest + window of the in-window entries, else now + window
ResetAtSeconds(entries, limit, t) ==
  IF Len(entries) > 0 THEN Oldest(entries) + limit.window
  ELSE t + limit.window

ResetAt(entries, limit, t) ==
  IF Len(entries) > 0 THEN Oldest(entries) + limit.window * MS_PER_SECOND
  ELSE t + limit.window * MS_PER_SECOND

\* the local retryAfter: 0 unless the branch of the in-window entries sets it
RetryAfter(entries, resetAt, t) ==
  IF Len(entries) > 0 THEN Ceil(resetAt - t, MS_PER_SECOND) ELSE 0

\* entries.push({ timestamp: now })
PushOnly(entries, t) == <<t>>

Push(entries, t) == Append(entries, t)

\* if (allowed) { entries.push(...); storage.set(key, entries); }
RecordAlways(st, key, entries, t, allowed) == MapSet(st, key, Push(entries, t))

RecordRequest(st, key, entries, t, allowed) ==
  IF allowed THEN MapSet(st, key, Push(entries, t)) ELSE st

\* checkLimit(key, limit) called at instant t on Map st: the object it
\* returns and the Map it leaves
checkLimit(st, key, limit, t) ==
  LET entries == Filter(Entries(st, key), WindowStart(limit, t))
      count == Len(entries)
      allowed == Allowed(count, limit)
      resetAt == ResetAt(entries, limit, t)
      retryAfter == RetryAfter(entries, resetAt, t)
  IN [result |-> [allowed |-> allowed,
                  remaining |-> Remaining(count, limit, allowed),
                  limit |-> limit.max,
                  resetAt |-> resetAt,
                  retryAfter |-> IF allowed THEN 0 ELSE retryAfter],
      storage |-> RecordRequest(st, key, entries, t, allowed)]

\* the callback of setInterval run at instant t: keys left without entries
\* are deleted, the others keep the entries of the last hour
cleanupStaleKeys(st, t) ==
  [k \in {j \in DOMAIN st : Oldest(st[j]) >= t - CLEANUP_HORIZON_MS} |-> st[k]]

cleanup(st, t) ==
  LET cutoff == t - CLEANUP_HORIZON_MS
      filtered == [k \in DOMAIN st |-> Filter(st[k], cutoff)]
  IN [k \in {j \in DOMAIN st : Len(filtered[j]) # 0} |-> filtered[k]]

\* requests as getKey reads them
Tokens == {Null, "tokA"}
Ips == {Null, "10.0.0.1"}
Reqs == {[token |-> t, ip |-> i] : t \in Tokens, i \in Ips}

\* the limiter calls of connected requests: the general limiter is mounted
\* ahead of the routes and their authentication, the comment limiter behind
\* requireAuth
Reaches(req, limitType) ==
  /\ req.ip # Null
  /\ (limitType = "requests") <=> (req.token = Null)

\* the keys the limiters are called with
Keys == {getKey(r, ty) : r \in Reqs, ty \in LimitTypes}

\* advances of Date.now() between two steps
Ticks == {1, MS_PER_SECOND, 60 * MS_PER_SECOND, CLEANUP_HORIZON_MS}

\* configurations: a window for each type, max scaled down to 0..MaxMax
Configs ==
  {[t \in LimitTypes |-> [max |-> m, window |-> w[t]]] :
     m \in 0..MaxMax, w \in {f \in [LimitTypes -> {60, 3600, 7200}] :
                                \A t \in LimitTypes : f[t] \in Windows[t]}}

\* history of a check of key at instant t that returned r
Record(key, t, r) ==
  /\ admits' = IF r.allowed THEN MapSet(admits, key, Append(Entries(admits, key), t))
               ELSE admits
  /\ seen' = MapSet(seen, key,
               IF key \in DOMAIN seen
               THEN [seen[key] EXCEPT !.n = IF @ > MaxMax THEN @ ELSE @ + 1]
               ELSE [n |-> 1, first |-> t])
  /\ pend' = IF r.allowed THEN [k \in DOMAIN pend \ {key} |-> pend[k]]
             ELSE IF key \in DOMAIN pend /\ pend[key] <= r.resetAt THEN pend
             ELSE MapSet(pend, key, r.resetAt)

\* checkLimit(getKey(req, limitType), config.rateLimits[limitType])
CheckLimit(req, limitType) ==
  LET key == getKey(req, limitType)
      c == checkLimit(storage, key, rateLimits[limitType], now)
  IN /\ checks < MaxChecks
     /\ checks' = checks + 1
     /\ storage' = c.storage
     /\ result' = c.result
     /\ last' = [key |-> key, type |-> limitType, at |-> now]
     /\ Record(key, now, c.result)
     /\ unswept' = checkLimit(unswept, key, rateLimits[limitType], now).storage
     /\ UNCHANGED <<rateLimits, now, nextSweep, ticks, mw>>
     /\ UNCHANGED <<voteVars, treeVars, cmVars, httpVars, statVars, subVars>>

\* the clock advances by d
Tick(d) ==
  /\ ticks < MaxTicks
  /\ ticks' = ticks + 1
  /\ now' = now + d
  /\ last' = NoCheck
  /\ result' = NoResult
  /\ UNCHANGED <<rateLimits, storage, nextSweep, checks, admits, seen, pend, unswept, mw>>
  /\ UNCHANGED <<voteVars, treeVars, cmVars, httpVars, statVars, subVars>>

\* the cleanup timer fires
Cleanup ==
  /\ now >= nextSweep
  /\ storage' = cleanup(storage, now)
  /\ nextSweep' = now + CLEANUP_INTERVAL_MS
  /\ last' = NoCheck
  /\ result' = NoResult
  /\ UNCHANGED <<rateLimits, now, ticks, checks, admits, seen, pend, unswept, mw>>
  /\ UNCHANGED <<voteVars, treeVars, cmVars, httpVars, statVars, subVars>>

LimitInit ==
  /\ VoteInit /\ \E c \in Configs : RateInit(c)
  /\ TreeInit(<< >>) /\ CommentInit(<< >>) /\ RestInit

NextLimit ==
  \/ \E r \in Reqs, ty \in LimitTypes : Reaches(r, ty) /\ CheckLimit(r, ty)
  \/ \E d \in Ticks : Tick(d)
  \/ Cleanup

LimitSpec == LimitInit /\ [][NextLimit]_vars


\* ------------------------------------------------- rate-limit middleware
\* errors.js: new RateLimitError(message, retryAfter)
RateLimitErrorDefault(message, retryAfter) ==
  [name |-> "RateLimitError", message |-> message, statusCode |-> 429,
   code |-> "RATE_LIMITED", hint |-> <<"Try again in ", 60, " seconds">>,
   retryAfter |-> 60]

RateLimitError(message, retryAfter) ==
  [name |-> "RateLimitError", message |-> message, statusCode |-> 429,
   code |-> "RATE_LIMITED", hint |-> <<"Try again in ", retryAfter, " seconds">>,
   retryAfter |-> retryAfter]

\* options.message of the limiter of a limit type
Message ==
  [t \in LimitTypes |-> IF t = "requests" THEN "Rate limit exceeded"
                        ELSE "Too many comments, slow down"]

\* the four res.setHeader calls
Headers(r) ==
  [limit |-> r.limit, remaining |-> r.remaining,
   reset |-> r.resetAt \div MS_PER_SECOND,
   retryAfter |-> IF r.allowed THEN -1 ELSE r.retryAfter]

\* next(e) on request m: the router passes the request on to the handlers
\* behind the limiter when e is no error, to the error handler otherwise
CallNext(m, e) ==
  [m EXCEPT !.nextArgs = Append(@, e),
            !.handled = IF e = NoError THEN @ + 1 ELSE @]

\* what the try block does with the decision r: throw to the catch, which
\* calls next(error), or set req.rateLimit and call next()
Decide429(m, r) ==
  IF ~r.allowed
  THEN CallNext([m EXCEPT !.headers = Headers(r)],
                RateLimitError(Message[m.type], r.retryAfter))
  ELSE CallNext([m EXCEPT !.headers = Headers(r), !.rateLimit = r], NoError)

\* advances of the clock while requests are inside the middleware
MwTicks == {1, MS_PER_SECOND, 60 * MS_PER_SECOND}

\* requests take the slots in order
InOrder(q) == \A o \in Requests : Arrival[o] < Arrival[q] => mw[o].pc # "idle"

\* a request enters the middleware, which evaluates skip(req) and awaits it:
\* what the limiter does
Enter(q, req, limitType, skipped) ==
  /\ mw[q].pc = "idle"
  /\ mw' = [mw EXCEPT ![q] = [NoMw EXCEPT !.pc = "skip", !.req = req,
                                         !.type = limitType, !.skip = skipped]]
  /\ last' = NoCheck
  /\ result' = NoResult
  /\ UNCHANGED <<rateLimits, storage, now, nextSweep, ticks, checks, admits, seen, pend, unswept>>

\* the limiter entered on its own
MwEnter(q, req, limitType, skipped) ==
  /\ InOrder(q)
  /\ Enter(q, req, limitType, skipped)
  /\ UNCHANGED <<voteVars, treeVars, cmVars, httpVars, statVars, subVars>>

\* after the first await: return next() for a skipped request, else evaluate
\* keyGenerator(req) and await it
Skip(q) ==
  /\ mw[q].pc = "skip"
  /\ mw' = [mw EXCEPT ![q] =
              IF mw[q].skip THEN CallNext([mw[q] EXCEPT !.pc = "done"], NoError)
              ELSE [mw[q] EXCEPT !.pc = "key", !.key = getKey(mw[q].req, mw[q].type)]]
  /\ last' = NoCheck
  /\ result' = NoResult
  /\ UNCHANGED <<rateLimits, storage, now, nextSweep, ticks, checks, admits, seen, pend, unswept>>

MwSkip(q) ==
  /\ Skip(q)
  /\ UNCHANGED <<voteVars, treeVars, cmVars, httpVars, statVars, subVars>>

\* after the second await: checkLimit, the headers, and next
Check(q) ==
  LET c == checkLimit(storage, mw[q].key, rateLimits[mw[q].type], now)
  IN /\ mw[q].pc = "key"
     /\ checks' = checks + 1
     /\ storage' = c.storage
     /\ result' = c.result
     /\ last' = [key |-> mw[q].key, type |-> mw[q].type, at |-> now]
     /\ Record(mw[q].key, now, c.result)
     /\ unswept' = checkLimit(unswept, mw[q].key, rateLimits[mw[q].type], now).storage
     /\ mw' = [mw EXCEPT ![q] =
                 Decide429([mw[q] EXCEPT !.pc = "done", !.at = now, !.result = c.result],
                           c.result)]
     /\ UNCHANGED <<rateLimits, now, nextSweep, ticks>>

MwCheck(q) ==
  /\ Check(q)
  /\ UNCHANGED <<voteVars, treeVars, cmVars, httpVars, statVars, subVars>>

NextMw ==
  \/ \E q \in Requests, r \in Reqs, ty \in LimitTypes, sk \in BOOLEAN :
       Reaches(r, ty) /\ MwEnter(q, r, ty, sk)
  \/ \E q \in Requests : MwSkip(q)
  \/ \E q \in Requests : MwCheck(q)
  \/ \E d \in MwTicks : Tick(d)

MwSpec == LimitInit /\ [][NextMw]_vars

\* key derivation alone: two requests of any caller, with or without a token,
\* with an IPv4, an IPv6 or no address, run the middleware up to the key
KeyTokens == Tokens \cup {"tokB"}
KeyIps == Ips \cup {"::1"}
KeyReqs == {[token |-> t, ip |-> i] : t \in KeyTokens, i \in KeyIps}
KeyRequests == {"q1", "q2"}

NextKey ==
  \/ \E q \in KeyRequests, r \in KeyReqs, ty \in LimitTypes, sk \in BOOLEAN :
       MwEnter(q, r, ty, sk)
  \/ \E q \in KeyRequests : MwSkip(q)

KeySpec == Init /\ [][NextKey]_vars

\* ---------------------------------------------------------- comment threads
\* ids of the comments of a list
IdsOf(list) == {list[k].id : k \in 1..Len(list)}

\* first pass: comment.replies = [] for every comment, commentMap keyed by id
FirstPass(list) == [i \in IdsOf(list) |-> << >>]

\* comment.parent_id && commentMap.has(comment.parent_id)
HasParentId(c, commentMap) == c.parent_id # NullId

HasParent(c, commentMap) == c.parent_id # NullId /\ c.parent_id \in DOMAIN commentMap

\* array.push(comment)
Unshift(array, id) == <<id>> \o array

PushComment(array, id) == Append(array, id)

\* commentMap.get(comment.parent_id).replies.push(comment)
AttachAndKeep(acc, c) ==
  [acc EXCEPT !.replies[c.parent_id] = PushComment(@, c.id),
              !.roots = PushComment(@, c.id)]

Attach(acc, c) == [acc EXCEPT !.replies[c.parent_id] = PushComment(@, c.id)]

\* rootComments.push(comment)
Discard(acc, c) == acc

Promote(acc, c) == [acc EXCEPT !.roots = PushComment(@, c.id)]

\* second pass from the k-th comment on
RECURSIVE SecondPass(_, _, _)
SecondPass(list, k, acc) ==
  IF k > Len(list) THEN acc
  ELSE SecondPass(list, k + 1,
                  IF HasParent(list[k], acc.replies)
                  THEN Attach(acc, list[k])
                  ELSE Promote(acc, list[k]))

\* CommentService.buildCommentTree(list)
buildCommentTree(list) ==
  SecondPass(list, 1, [roots |-> << >>, replies |-> FirstPass(list)])

\* ids and parent ids of the lists drawn: every list leaves one id out, which
\* is a parent id that is not in the list
TreeIds == 1..(MaxLen + 1)
TreeComments == [id : TreeIds, parent_id : {NullId} \cup TreeIds]

\* the list of the documented example
DocumentedExample ==
  << [id |-> 1, parent_id |-> NullId], [id |-> 2, parent_id |-> 1],
     [id |-> 3, parent_id |-> 1], [id |-> 4, parent_id |-> 2] >>

\* flat lists with distinct ids, in any order, with any parent ids
TreeInputs ==
  {DocumentedExample} \cup
  UNION {{l \in [1..n -> TreeComments] :
            \A i \in 1..n, j \in 1..n : l[i].id = l[j].id => i = j} : n \in 0..MaxLen}

\* a call of buildCommentTree on the list; a second call resets every replies
\* array in its first pass and builds again
Build ==
  /\ builds < MaxBuilds
  /\ builds' = builds + 1
  /\ tree' = buildCommentTree(flat)
  /\ UNCHANGED flat
  /\ UNCHANGED <<voteVars, rlVars, cmVars, httpVars, statVars, subVars>>

TreeSpecInit ==
  /\ VoteInit /\ RateInit(DocumentedLimits)
  /\ \E l \in TreeInputs : TreeInit(l)
  /\ CommentInit(<< >>) /\ RestInit

NextTree == Build

TreeSpec == TreeSpecInit /\ [][NextTree]_vars

\* ------------------------------------------------------------------ errors
\* hint: null
NoHint == << >>

\* errors.js: new ApiError(message, statusCode, code, hint)
ApiError(message, statusCode, code, hint) ==
  [name |-> "ApiError", message |-> message, statusCode |-> statusCode,
   code |-> code, hint |-> hint, retryAfter |-> -1]

\* new BadRequestError(message)
BadRequestError(message) ==
  [ApiError(message, 400, "BAD_REQUEST", NoHint) EXCEPT !.name = "BadRequestError"]

\* new UnauthorizedError(message, hint)
UnauthorizedError(message, hint) ==
  [ApiError(message, 401, "UNAUTHORIZED", hint) EXCEPT !.name = "UnauthorizedError"]

\* new ForbiddenError(message, hint)
ForbiddenError(message, hint) ==
  [ApiError(message, 403, "FORBIDDEN", hint) EXCEPT !.name = "ForbiddenError"]

\* new NotFoundError(resource)
NotFoundError(resource) ==
  [ApiError(resource \o " not found", 404, "NOT_FOUND", NoHint)
     EXCEPT !.name = "NotFoundError"]

\* new ConflictError(message)
ConflictError(message) ==
  [ApiError(message, 409, "CONFLICT", NoHint) EXCEPT !.name = "ConflictError"]

\* new Error(message), thrown by anything that is not the API's own
PlainError(message) ==
  [name |-> "Error", message |-> message, statusCode |-> 0, code |-> "-",
   hint |-> NoHint, retryAfter |-> -1]

\* the error express.json() forwards for a body that is not JSON
ParseError ==
  [name |-> "SyntaxError", message |-> "Unexpected token", statusCode |-> 400,
   code |-> "entity.parse.failed", hint |-> NoHint, retryAfter |-> -1]

\* the classes of errors.js
ApiErrorNames ==
  {"ApiError", "BadRequestError", "UnauthorizedError", "ForbiddenError",
   "NotFoundError", "ConflictError", "RateLimitError"}

\* err instanceof ApiError
InstanceOfApiError(e) == e.name \in ApiErrorNames

\* toJSON() of ApiError, and its override in RateLimitError
toJSON(e) ==
  IF e.name = "RateLimitError"
  THEN [success |-> FALSE, error |-> e.message, code |-> e.code, hint |-> e.hint,
        retryAfter |-> e.retryAfter, retryAfterMinutes |-> Ceil(e.retryAfter, 60)]
  ELSE [success |-> FALSE, error |-> e.message, code |-> e.code, hint |-> e.hint]

\* errorHandler(err, req, res, next): the status and the body it sends
errorHandlerPlain(e, isProduction) ==
  [status |-> 500,
   body |-> [success |-> FALSE, error |-> "Internal server error",
             hint |-> <<"Please try again later">>]]

errorHandler(e, isProduction) ==
  IF InstanceOfApiError(e)
  THEN [status |-> e.statusCode, body |-> toJSON(e)]
  ELSE IF e.code = "entity.parse.failed"
  THEN [status |-> 400,
        body |-> [success |-> FALSE, error |-> "Invalid JSON body",
                  hint |-> <<"Check your request body is valid JSON">>]]
  ELSE [status |-> IF e.statusCode # 0 THEN e.statusCode ELSE 500,
        body |-> [success |-> FALSE,
                  error |-> IF isProduction THEN "Internal server error" ELSE e.message,
                  hint |-> <<"Please try again later">>]]

\* notFoundHandler(req, res, next)
notFoundHandler(req) ==
  [status |-> 404,
   body |-> [success |-> FALSE, error |-> "Endpoint not found",
             hint |-> <<req.path, " does not exist. Check the API documentation.">>]]

\* --------------------------------------------------------- authentication
\* utils/auth: number of random bytes of an API key, two hex digits each
TOKEN_LENGTH == 32

\* API keys as validateApiKey reads them: whether the key starts with
\* tokenPrefix, the length of what follows, and whether that is all hex
KeyShape ==
  [k \in {"moltbook_A", "moltbook_B", "moltbook_X", "moltbook_Z", "moltbook_short",
          "invalid", "abc", "x"} |->
     IF k \in {"moltbook_A", "moltbook_B", "moltbook_X"}
     THEN [prefix |-> TRUE, rest |-> TOKEN_LENGTH * 2, hex |-> TRUE]
     ELSE IF k = "moltbook_Z" THEN [prefix |-> TRUE, rest |-> TOKEN_LENGTH * 2, hex |-> FALSE]
     ELSE IF k = "moltbook_short" THEN [prefix |-> TRUE, rest |-> 5, hex |-> FALSE]
     ELSE [prefix |-> FALSE, rest |-> 0, hex |-> FALSE]]

\* the agents table: the agent each stored API key belongs to
KeyAgent == [k \in {"moltbook_A", "moltbook_B"} |->
               IF k = "moltbook_A" THEN "a1" ELSE "a2"]

\* scheme.toLowerCase()
LowerCase ==
  [w \in {"Bearer", "bearer", "BEARER", "Basic"} |->
     IF w = "Basic" THEN "basic" ELSE "bearer"]

\* a header value is the sequence of its words and single spaces;
\* authHeader.split(' '): the words between the spaces, "" where two spaces
\* meet or the value starts or ends with one
RECURSIVE Split(_)
Split(header) ==
  IF header = << >> THEN << "" >>
  ELSE LET rest == Split(Tail(header))
       IN IF Head(header) = " " THEN << "" >> \o rest
          ELSE << Head(header) >> \o Tail(rest)

\* extractToken(authHeader): the token or null
extractTokenAnyScheme(authHeader) ==
  IF authHeader = << >> THEN Null
  ELSE LET parts == Split(authHeader)
       IN IF Len(parts) # 2 THEN Null
          ELSE parts[2]

extractToken(authHeader) ==
  IF authHeader = << >> THEN Null
  ELSE LET parts == Split(authHeader)
       IN IF Len(parts) # 2 THEN Null
          ELSE IF parts[1] \notin DOMAIN LowerCase THEN Null
          ELSE IF LowerCase[parts[1]] # "bearer" THEN Null
          ELSE parts[2]

\* validateApiKey(token)
validateApiKey(token) ==
  /\ Truthy(token)
  /\ KeyShape[token].prefix
  /\ KeyShape[token].rest = TOKEN_LENGTH * 2
  /\ KeyShape[token].hex

\* AgentService.findByApiKey(token): the agent or null
findByApiKey(token) == IF token \in DOMAIN KeyAgent THEN KeyAgent[token] ELSE Null

\* --------------------------------------------------------- request pipeline
\* paths as the segments after the leading slash
ApiPrefix == <<"api", "v1">>
Paths ==
  {<< >>, <<"skill.md">>, <<"nowhere">>, <<"api", "v1", "health">>,
   <<"api", "v1", "comments", "i2">>, <<"api", "v1", "nowhere">>}

\* app.use(prefix, ...): the path starts with the prefix
Mounted(path, prefix) ==
  /\ Len(path) >= Len(prefix)
  /\ SubSeq(path, 1, Len(prefix)) = prefix

\* the path inside the router
Rest(path) == SubSeq(path, Len(ApiPrefix) + 1, Len(path))

\* Authorization header values
AuthHeaders ==
  {<< >>, <<"Basic", " ", "abc">>, <<"Bearer">>, <<"Bearer", " ">>,
   <<"Bearer", " ", "moltbook_A">>, <<"bearer", " ", "moltbook_A">>,
   <<"BEARER", " ", "moltbook_B">>, <<"Bearer", " ", " ", "moltbook_A">>,
   <<"Bearer", " ", "moltbook_A", " ", "x">>, <<" ", "Bearer", " ", "moltbook_A">>,
   <<"Bearer", " ", "moltbook_X">>, <<"Bearer", " ", "moltbook_Z">>,
   <<"Bearer", " ", "moltbook_short">>, <<"Bearer", " ", "invalid">>,
   <<"Basic", " ", "moltbook_A">>}

\* requests: any path without a key or with the key of either agent, one
\* with a body that is not JSON, and the authenticated route under every
\* header value
HttpReqs ==
  {[path |-> p, authorization |-> h, ip |-> "10.0.0.1", body |-> "json"] :
     p \in Paths,
     h \in {<< >>, <<"Bearer", " ", "moltbook_A">>, <<"BEARER", " ", "moltbook_B">>}}
  \cup {[path |-> <<"api", "v1", "comments", "i2">>, authorization |-> << >>,
          ip |-> "10.0.0.1", body |-> "malformed"]}
  \cup {[path |-> <<"api", "v1", "comments", "i2">>, authorization |-> h,
          ip |-> "10.0.0.1", body |-> "json"] : h \in AuthHeaders}

\* what fs.readFile gives the skill.md route
FileReads == {"data", "ENOENT", "EIO"}

\* what the service call of a route handler does: it returns, or throws
Outcomes ==
  {NoError, NotFoundError("Comment"),
   ForbiddenError("You can only delete your own comments", NoHint),
   BadRequestError("Content is required"), ConflictError("Already following"),
   PlainError("connection refused")}

\* req as the general limiter reads it
LimiterReq(h) == [token |-> h.token, ip |-> h.req.ip]

\* a response is sent by the named handler
Send(h, name, res) ==
  [h EXCEPT !.pc = "sent", !.trace = Append(@, name), !.res = res]

\* next(e) reaches errorHandler
Fail(h, e, isProduction) ==
  [Send(h, "errorHandler", errorHandler(e, isProduction)) EXCEPT !.err = e]

\* res.json with success: true
Success == [status |-> 200, body |-> [success |-> TRUE]]

\* requireAuth up to `await AgentService.findByApiKey(token)`
RequireAuthBegin(h, isProduction) ==
  LET ran == [h EXCEPT !.trace = Append(@, "requireAuth")]
      token == extractToken(h.req.authorization)
  IN IF ~Truthy(token)
     THEN Fail(ran, UnauthorizedError("No authorization token provided",
                      <<"Add 'Authorization: Bearer YOUR_API_KEY' header">>), isProduction)
     ELSE IF ~validateApiKey(token)
     THEN Fail(ran, UnauthorizedError("Invalid token format",
                      <<"Token should start with \"moltbook_\" followed by 64 hex characters">>),
               isProduction)
     ELSE [ran EXCEPT !.pc = "auth"]

RequireAuthEnd(h, isProduction) ==
  LET token == extractToken(h.req.authorization)
      agent == findByApiKey(token)
  IN IF agent = Null
     THEN Fail(h, UnauthorizedError("Invalid or expired token",
                    <<"Check your API key or register for a new one">>), isProduction)
     ELSE [h EXCEPT !.pc = "handler", !.agent = agent, !.token = token,
                    !.trace = Append(@, "handler")]

\* the router behind the limiter: the mounted routes, the health check, and
\* past the router the 404 of the app
Route(h, isProduction) ==
  LET rest == Rest(h.req.path)
  IN IF Len(rest) = 2 /\ rest[1] = "comments" THEN RequireAuthBegin(h, isProduction)
     ELSE IF rest = <<"health">> THEN Send(h, "health", Success)
     ELSE Send(h, "notFoundHandler", notFoundHandler(h.req))

\* what the app does with the request once the limiter has called next
AfterLimiterRegardless(h, m, isProduction) == Route(h, isProduction)

AfterLimiter(h, m, isProduction) ==
  LET e == m.nextArgs[Len(m.nextArgs)]
  IN IF e # NoError THEN Fail(h, e, isProduction) ELSE Route(h, isProduction)

\* the app-level stack for a request that is not under the API prefix
AppRoutes(h, file) ==
  IF h.req.path = << >> THEN Send(h, "root", Success)
  ELSE IF h.req.path = <<"skill.md">>
  THEN Send(h, "skill",
            IF file = "data" THEN [status |-> 200, body |-> [success |-> TRUE]]
            ELSE IF file = "ENOENT" THEN [status |-> 404, body |-> [success |-> FALSE]]
            ELSE [status |-> 500, body |-> [success |-> FALSE]])
  ELSE Send(h, "notFoundHandler", notFoundHandler(h.req))

\* requests arrive in the order of their slots
Arrived(q) == \A o \in Requests : Arrival[o] < Arrival[q] => http[o].pc # "new"

\* a request arrives: express.json, then the router under /api/v1 and its
\* limiter up to the first await, or the routes of the app
HttpEnter(q, req, file, isProduction) ==
  LET h == [NoHttp EXCEPT !.req = req]
  IN /\ http[q].pc = "new"
     /\ Arrived(q)
     /\ IF req.body = "malformed"
        THEN /\ http' = [http EXCEPT ![q] = Fail(h, ParseError, isProduction)]
             /\ UNCHANGED rlVars
        ELSE IF Mounted(req.path, ApiPrefix)
        THEN /\ Enter(q, LimiterReq(h), "requests", FALSE)
             /\ http' = [http EXCEPT ![q] =
                           [h EXCEPT !.pc = "limiter", !.trace = <<"requestLimiter">>]]
        ELSE /\ http' = [http EXCEPT ![q] = AppRoutes(h, file)]
             /\ UNCHANGED rlVars
     /\ UNCHANGED <<voteVars, treeVars, cmVars, statVars, subVars>>

\* the limiter after its first await
HttpSkip(q) ==
  /\ http[q].pc = "limiter"
  /\ Skip(q)
  /\ UNCHANGED http
  /\ UNCHANGED <<voteVars, treeVars, cmVars, statVars, subVars>>

\* the limiter after its second await, and what its call of next runs
HttpCheck(q, isProduction) ==
  /\ http[q].pc = "limiter"
  /\ Check(q)
  /\ http' = [http EXCEPT ![q] = AfterLimiter(http[q], mw'[q], isProduction)]
  /\ UNCHANGED <<voteVars, treeVars, cmVars, statVars, subVars>>

\* requireAuth after findByApiKey
HttpAuth(q, isProduction) ==
  /\ http[q].pc = "auth"
  /\ http' = [http EXCEPT ![q] = RequireAuthEnd(http[q], isProduction)]
  /\ UNCHANGED rlVars
  /\ UNCHANGED <<voteVars, treeVars, cmVars, statVars, subVars>>

\* the route handler after its service call
HttpHandle(q, outcome, isProduction) ==
  /\ http[q].pc = "handler"
  /\ http' = [http EXCEPT ![q] =
                IF outcome = NoError THEN Send(http[q], "respond", Success)
                ELSE Fail(http[q], outcome, isProduction)]
  /\ UNCHANGED rlVars
  /\ UNCHANGED <<voteVars, treeVars, cmVars, statVars, subVars>>

\* two requests in flight
HttpRequests == {"q1", "q2"}

AppInit ==
  /\ VoteInit
  /\ \E c \in Configs : c["comments"].window = 3600 /\ RateInit(c)
  /\ TreeInit(<< >>) /\ CommentInit(<< >>) /\ RestInit

NextApp ==
  \/ \E q \in HttpRequests, r \in HttpReqs, file \in FileReads, pr \in BOOLEAN :
       /\ (file # "data") => r.path = <<"skill.md">>
       /\ HttpEnter(q, r, file, pr)
  \/ \E q \in HttpRequests : HttpSkip(q)
  \/ \E q \in HttpRequests, pr \in BOOLEAN : HttpCheck(q, pr)
  \/ \E q \in HttpRequests, pr \in BOOLEAN : HttpAuth(q, pr)
  \/ \E q \in HttpRequests, o \in Outcomes, pr \in BOOLEAN : HttpHandle(q, o, pr)

AppSpec == AppInit /\ [][NextApp]_vars

\* --------------------------------------------------- CommentService.create
\* content as create reads it: content.length and content.trim().length
Contents ==
  {[length |-> 0, trimmed |-> 0], [length |-> 2, trimmed |-> 0],
   [length |-> 2, trimmed |-> 2],
   [length |-> MAX_CONTENT + 1, trimmed |-> MAX_CONTENT + 1]}

\* !content || content.trim().length === 0
ContentMissing(content) == content.length = 0 \/ content.trimmed = 0

\* SELECT id FROM posts WHERE id = $1
PostExists(postId) == postId \in ThreadPosts

\* SELECT id, depth FROM comments WHERE id = $1 AND post_id = $2
SelectParentAnyPost(rows, parentId, postId) ==
  {rows[k] : k \in {j \in 1..Len(rows) : rows[j].id = parentId}}

SelectParent(rows, parentId, postId) ==
  {rows[k] : k \in {j \in 1..Len(rows) : rows[j].id = parentId /\ rows[j].post_id = postId}}

\* depth = parent.depth + 1
ChildDepth(parent) == parent.depth + 1

\* depth > 10
TooDeep(depth) == depth > MAX_DEPTH

\* INSERT INTO comments (post_id, author_id, content, parent_id, depth)
InsertComment(rows, postId, parentId, depth) ==
  Append(rows, [id |-> Len(rows) + 1, post_id |-> postId, parent_id |-> parentId,
                depth |-> depth])

\* PostService.incrementCommentCount(postId)
IncrementCommentCount(counts, postId) == [counts EXCEPT ![postId] = @ + 1]

\* a call that has thrown e: its locals are gone
Thrown(e) == [NoCreate EXCEPT !.pc = "thrown", !.err = e]

\* a call that has returned the comment with this id
Returned(id) == [NoCreate EXCEPT !.pc = "done", !.id = id]

\* the create call of caller p moves to c; the other callers keep theirs
CreateStep(p, c) ==
  /\ cc' = [cc EXCEPT ![p] = c]
  /\ UNCHANGED <<voteVars, rlVars, treeVars, httpVars, statVars, subVars>>

\* create({postId, authorId, content, parentId}) up to the first statement
\* that waits for the store after the post was found: the content checks and
\* the SELECT on posts
CreateBegin(p, postId, content, parentId) ==
  /\ cc[p].pc \in {"idle", "done", "thrown"}
  /\ creates < MaxCreates
  /\ creates' = creates + 1
  /\ UNCHANGED <<commentRows, commentCount>>
  /\ LET c == [NoCreate EXCEPT !.postId = postId, !.parentId = parentId]
     IN CreateStep(p,
          IF ContentMissing(content)
          THEN Thrown(BadRequestError("Content is required"))
          ELSE IF content.length > MAX_CONTENT
          THEN Thrown(BadRequestError("Content must be 10000 characters or less"))
          ELSE IF ~PostExists(postId)
          THEN Thrown(NotFoundError("Post"))
          ELSE IF parentId # NullId THEN [c EXCEPT !.pc = "parent"]
          ELSE [c EXCEPT !.pc = "insert"])

\* the SELECT of the parent comment and the depth check
CreateParent(p) ==
  /\ cc[p].pc = "parent"
  /\ UNCHANGED <<commentRows, commentCount, creates>>
  /\ LET found == SelectParent(commentRows, cc[p].parentId, cc[p].postId)
     IN CreateStep(p,
          IF found = {}
          THEN Thrown(NotFoundError("Parent comment"))
          ELSE LET depth == ChildDepth(CHOOSE r \in found : TRUE)
               IN IF TooDeep(depth)
                  THEN Thrown(BadRequestError("Maximum comment depth exceeded"))
                  ELSE [cc[p] EXCEPT !.pc = "insert", !.depth = depth])

\* the INSERT
CreateInsert(p) ==
  /\ cc[p].pc = "insert"
  /\ commentRows' = InsertComment(commentRows, cc[p].postId, cc[p].parentId, cc[p].depth)
  /\ UNCHANGED <<commentCount, creates>>
  /\ CreateStep(p, [cc[p] EXCEPT !.pc = "count", !.id = Len(commentRows) + 1])

\* incrementCommentCount, and the return
CreateCount(p) ==
  /\ cc[p].pc = "count"
  /\ commentCount' = IncrementCommentCount(commentCount, cc[p].postId)
  /\ UNCHANGED <<commentRows, creates>>
  /\ CreateStep(p, Returned(cc[p].id))

\* parentId values a caller passes: none, an id that is not stored, the top
\* of the deep thread, its two deepest comments and the comments created
\* since
ParentIds == {NullId, MissingId, 1} \cup MAX_DEPTH..(MAX_DEPTH + 1 + MaxCreates)

CommentSpecInit ==
  /\ VoteInit /\ RateInit(DocumentedLimits)
  /\ TreeInit(<< >>)
  /\ \E rows \in CommentStores : CommentInit(rows)
  /\ RestInit

NextComment ==
  \/ \E p \in Creators, postId \in ThreadPosts \cup {MissingPost},
        content \in Contents, parentId \in ParentIds :
       CreateBegin(p, postId, content, parentId)
  \/ \E p \in Creators : CreateParent(p)
  \/ \E p \in Creators : CreateInsert(p)
  \/ \E p \in Creators : CreateCount(p)

CommentSpec == CommentSpecInit /\ [][NextComment]_vars

\* ------------------------------------------------ CommentService.getByPost
\* the votes one agent casts on a comment, one after another
Histories ==
  {<< >>, <<VOTE_UP>>, <<VOTE_DOWN>>, <<VOTE_DOWN, VOTE_UP, VOTE_DOWN>>}

\* score, upvotes and downvotes of a comment after the votes of a history
\* from the k-th on: each vote goes through the branch of vote() and
\* CommentService.updateScore
RECURSIVE Tally(_, _, _, _)
Tally(history, k, stored, counters) ==
  IF k > Len(history) THEN counters
  ELSE LET existingVote == IF stored = 0 THEN NoVote ELSE [id |-> 1, value |-> stored]
           d == Decide(existingVote, history[k])
       IN Tally(history, k + 1,
                IF d.action = "removed" THEN 0 ELSE history[k],
                CommentUpdateScore(counters, d.scoreDelta, history[k] = VOTE_UP))

\* parent of each of n comments of a post: none, or a comment created earlier
Parents(n) == {par \in [1..n -> 0..n] : \A k \in 1..n : par[k] < k}

\* depth create gave the k-th comment
RECURSIVE DepthOf(_, _)
DepthOf(par, k) == IF par[k] = NullId THEN 0 ELSE DepthOf(par, par[k]) + 1

\* the comments table: n comments of post p1 created in the order of their
\* ids, each with the counters of a history
Thread(par, hs) ==
  [k \in DOMAIN par |->
     LET c == Tally(hs[k], 1, 0, [score |-> 0, upvotes |-> 0, downvotes |-> 0])
     IN [id |-> k, post_id |-> "p1", parent_id |-> par[k], depth |-> DepthOf(par, k),
         created_at |-> k, score |-> c.score, upvotes |-> c.upvotes,
         downvotes |-> c.downvotes]]

\* a top-level comment of post p2
Elsewhere(id) ==
  [id |-> id, post_id |-> "p2", parent_id |-> NullId, depth |-> 0, created_at |-> id,
   score |-> 0, upvotes |-> 0, downvotes |-> 0]

\* tables getByPost reads: a thread of p1, alone or with a comment of p2
ListStores ==
  UNION {{Thread(par, hs) : par \in Parents(n), hs \in [1..n -> Histories]} : n \in 0..MaxRows}
  \cup UNION {{Append(Thread(par, hs), Elsewhere(n + 1)) :
                 par \in Parents(n), hs \in [1..n -> Histories]} : n \in 0..MaxRows}

\* ABS, GREATEST and the division of two INTEGER values, which truncates
Abs(x) == IF x < 0 THEN -x ELSE x
Greatest(x, y) == IF x > y THEN x ELSE y
IntDiv(x, y) == IF x >= 0 THEN x \div y ELSE -((-x) \div y)

\* (c.upvotes + c.downvotes) *
\* (1 - ABS(c.upvotes - c.downvotes) / GREATEST(c.upvotes + c.downvotes, 1))
Controversial(c) ==
  (c.upvotes + c.downvotes)
  * (1 - IntDiv(Abs(c.upvotes - c.downvotes), Greatest(c.upvotes + c.downvotes, 1)))

\* the orderBy term of the sort: row a sorts before row b
OrderBy(sort, a, b) ==
  IF sort = "new" THEN a.created_at > b.created_at
  ELSE IF sort = "controversial" THEN Controversial(a) > Controversial(b)
  ELSE a.score > b.score \/ (a.score = b.score /\ a.created_at < b.created_at)

\* ORDER BY c.depth ASC, ${orderBy}
PrecedesAnyDepth(sort, a, b) == OrderBy(sort, a, b)

Precedes(sort, a, b) ==
  a.depth < b.depth \/ (a.depth = b.depth /\ OrderBy(sort, a, b))

\* the rows the SELECT can return: the comments of the post in an order
\* the ORDER BY allows (rows it ranks equal come in any order), cut by LIMIT.
\* The join with agents drops no row: author_id references agents.
QueryComments(rows, postId, sort, limit) ==
  LET sel == {k \in 1..Len(rows) : rows[k].post_id = postId}
      n == Cardinality(sel)
      orders == {o \in [1..n -> sel] :
                   /\ \A i \in 1..n, j \in 1..n : o[i] = o[j] => i = j
                   /\ \A i \in 1..n, j \in 1..n :
                        i < j => ~Precedes(sort, rows[o[j]], rows[o[i]])}
      m == IF limit < n THEN limit ELSE n
  IN {[i \in 1..m |-> rows[o[i]]] : o \in orders}

\* options of getByPost: sort (anything but new and controversial is top),
\* limit (100 when not given)
Sorts == {"top", "new", "controversial", "hot"}
Limits == 0..MaxRows \cup {100}

\* CommentService.getByPost(postId, {sort, limit}): the rows read, and the
\* tree built from them.  The call only reads the table, so one call is
\* followed per table.
GetByPost(postId, sort, limit) ==
  /\ builds = 0
  /\ \E list \in QueryComments(commentRows, postId, sort, limit) :
       /\ flat' = list
       /\ tree' = buildCommentTree(list)
  /\ builds' = builds + 1
  /\ UNCHANGED <<voteVars, rlVars, cmVars, httpVars, statVars, subVars>>

ListSpecInit ==
  /\ VoteInit /\ RateInit(DocumentedLimits)
  /\ TreeInit(<< >>)
  /\ \E rows \in ListStores : CommentInit(rows)
  /\ RestInit

NextList ==
  \E postId \in ThreadPosts \cup {MissingPost}, sort \in Sorts, limit \in Limits :
    GetByPost(postId, sort, limit)

ListSpec == ListSpecInit /\ [][NextList]_vars

\* ---------------------------------------------------- StatsService.getStats
\* parseInt(res?.count || 0, 10) of the row a COUNT(*) query returned
ParseCount(res) == IF res = NoCountRow \/ res.count = 0 THEN 0 ELSE res.count

\* SELECT COUNT(*) as count FROM <table>
CountRows(db, table) == [count |-> db[table]]

\* the stats object built from the four results
StatsOf(db) ==
  [agentCount |-> ParseCount(CountRows(db, "agents")),
   postCount |-> ParseCount(CountRows(db, "posts")),
   commentCount |-> ParseCount(CountRows(db, "comments")),
   submoltCount |-> ParseCount(CountRows(db, "submolts"))]

\* cachedStats && (now - lastCacheTime < CACHE_DURATION)
CacheValid(stats, t, cachedAt) == stats # NoStats /\ t - cachedAt < CACHE_DURATION

\* getStats up to the await: now is read, the cached object is returned or
\* the four queries are sent
GetStatsBegin(p) ==
  /\ sc[p].pc # "query"
  /\ statCalls < MaxCalls
  /\ statCalls' = statCalls + 1
  /\ sc' = [sc EXCEPT ![p] =
              IF CacheValid(cachedStats, statClock, lastCacheTime)
              THEN [pc |-> "done", call |-> statCalls', now |-> statClock, ret |-> cachedStats]
              ELSE [pc |-> "query", call |-> statCalls', now |-> statClock, ret |-> NoStats]]
  /\ UNCHANGED <<cachedStats, lastCacheTime, statClock, statDb, statTicks>>
  /\ UNCHANGED <<voteVars, rlVars, treeVars, cmVars, httpVars, subVars>>

\* Promise.all resolved: the stats are built, the cache and its time are
\* assigned from the locals, the stats are returned
GetStatsEnd(p) ==
  /\ sc[p].pc = "query"
  /\ cachedStats' = StatsOf(statDb)
  /\ lastCacheTime' = sc[p].now
  /\ sc' = [sc EXCEPT ![p].pc = "done", ![p].ret = StatsOf(statDb)]
  /\ UNCHANGED <<statClock, statDb, statTicks, statCalls>>
  /\ UNCHANGED <<voteVars, rlVars, treeVars, cmVars, httpVars, subVars>>

\* one of the four queries rejected: Promise.all rejects and getStats throws
GetStatsFail(p) ==
  /\ sc[p].pc = "query"
  /\ sc' = [sc EXCEPT ![p].pc = "failed"]
  /\ UNCHANGED <<cachedStats, lastCacheTime, statClock, statDb, statTicks, statCalls>>
  /\ UNCHANGED <<voteVars, rlVars, treeVars, cmVars, httpVars, subVars>>

\* the clock advances: by a millisecond, or to one short of five minutes
StatTicks == {1, CACHE_DURATION - 1}

StatTick(d) ==
  /\ statTicks < MaxTicks
  /\ statTicks' = statTicks + 1
  /\ statClock' = statClock + d
  /\ UNCHANGED <<cachedStats, lastCacheTime, sc, statDb, statCalls>>
  /\ UNCHANGED <<voteVars, rlVars, treeVars, cmVars, httpVars, subVars>>

\* an agent registers: the agents table gains a row
StatInsert ==
  /\ statDb.agents < MaxInserts
  /\ statDb' = [statDb EXCEPT !.agents = @ + 1]
  /\ UNCHANGED <<cachedStats, lastCacheTime, sc, statClock, statTicks, statCalls>>
  /\ UNCHANGED <<voteVars, rlVars, treeVars, cmVars, httpVars, subVars>>

StatSpecInit ==
  /\ VoteInit /\ RateInit(DocumentedLimits)
  /\ TreeInit(<< >>) /\ CommentInit(<< >>) /\ RestInit

NextStat ==
  \/ \E p \in StatCallers : GetStatsBegin(p)
  \/ \E p \in StatCallers : GetStatsEnd(p)
  \/ \E p \in StatCallers : GetStatsFail(p)
  \/ \E d \in StatTicks : StatTick(d)
  \/ StatInsert

StatSpec == StatSpecInit /\ [][NextStat]_vars

\* --------------------------------------------------------- SubmoltService
\* names given to create: the name after toLowerCase().trim(), its length,
\* whether it matches /^[a-z0-9_]+$/
NameShape ==
  [n \in {"", "tech", "Tech ", "admin", "x", "my-sub"} |->
     IF n = "" THEN [normalized |-> "", length |-> 0, plain |-> FALSE]
     ELSE IF n = "my-sub" THEN [normalized |-> "my-sub", length |-> 6, plain |-> FALSE]
     ELSE IF n = "tech" THEN [normalized |-> "tech", length |-> 4, plain |-> TRUE]
     ELSE IF n = "Tech " THEN [normalized |-> "tech", length |-> 4, plain |-> TRUE]
     ELSE IF n = "admin" THEN [normalized |-> "admin", length |-> 5, plain |-> TRUE]
     ELSE [normalized |-> "x", length |-> 1, plain |-> TRUE]]

ReservedNames == {"admin", "mod", "api", "www", "moltbook", "help", "all", "popular"}

\* the checks of create before its first query: the error thrown, if any
ValidateName(name) ==
  IF name = "" THEN BadRequestError("Name is required")
  ELSE IF NameShape[name].length < 2 \/ NameShape[name].length > 24
    THEN BadRequestError("Name must be 2-24 characters")
  ELSE IF ~NameShape[name].plain
    THEN BadRequestError("Name can only contain lowercase letters, numbers, and underscores")
  ELSE IF NameShape[name].normalized \in ReservedNames
    THEN BadRequestError("This name is reserved")
  ELSE NoError

\* table agents: names as addModerator and removeModerator are given them,
\* and the id of the agent of that name once lower-cased, if there is one
AgentNames == {"alice", "Bob", "carol"}
AgentByName(agentName) ==
  IF agentName = "alice" THEN "a1" ELSE IF agentName = "Bob" THEN "a2" ELSE Null

\* SELECT id FROM submolts WHERE name = $1
SubmoltNamed(ms, name) == {i \in 1..Len(ms) : ms[i].name = name}

\* SELECT id FROM subscriptions WHERE submolt_id = $1 AND agent_id = $2
Subscribed(subs, submoltId, agentId) ==
  [submolt_id |-> submoltId, agent_id |-> agentId] \in subs

\* SELECT role FROM submolt_moderators WHERE submolt_id = $1 AND agent_id = $2
RoleOf(mods, submoltId, agentId) ==
  IF \E r \in mods : r.submolt_id = submoltId /\ r.agent_id = agentId
  THEN (CHOOSE r \in mods : r.submolt_id = submoltId /\ r.agent_id = agentId).role
  ELSE Null

\* UPDATE submolts SET subscriber_count = subscriber_count + d WHERE id = $1
CountUnchanged(ms, submoltId, d) == ms

AddToCount(ms, submoltId, d) ==
  [ms EXCEPT ![submoltId].subscriber_count = @ + d]

\* INSERT INTO submolt_moderators ... ON CONFLICT (submolt_id, agent_id)
\* DO UPDATE SET role = $3
Upsert(mods, submoltId, agentId, role) ==
  {r \in mods : ~(r.submolt_id = submoltId /\ r.agent_id = agentId)}
  \cup {[submolt_id |-> submoltId, agent_id |-> agentId, role |-> role]}

\* DELETE FROM submolt_moderators WHERE submolt_id = $1 AND agent_id = $2
DeleteModerator(mods, submoltId, agentId) ==
  {r \in mods : ~(r.submolt_id = submoltId /\ r.agent_id = agentId)}

\* transaction(callback): the writes of the callback are committed together,
\* or none is when a statement of it is refused
transaction(before, after, refused) == IF refused THEN before ELSE after

\* no SubmoltService call is running
SubQuiet == \A p \in SubCallers : sm[p].pc \in {"idle", "done", "failed"}

\* caller p begins a call: it is not inside one, and a call count is left
SubBegin(p) ==
  /\ sm[p].pc \in {"idle", "done", "failed"}
  /\ subCalls < MaxSubCalls
  /\ subCalls' = subCalls + 1

\* the call of p returns or throws
SubReturn(p, ret) == [NoSubCall EXCEPT !.pc = "done", !.op = sm[p].op, !.ret = ret]
SubThrow(p, e) == [NoSubCall EXCEPT !.pc = "failed", !.op = sm[p].op, !.err = e]

\* subscribe(submoltId, agentId): the SELECT, and the return when a row exists
Subscribe(p, submoltId, agentId) ==
  /\ SubBegin(p)
  /\ sm' = [sm EXCEPT ![p] =
              IF Subscribed(subscriptions, submoltId, agentId)
              THEN [NoSubCall EXCEPT !.pc = "done", !.op = "subscribe",
                                     !.agentId = agentId,
                                     !.call = subCalls + 1,
                                     !.ret = "already_subscribed"]
              ELSE [NoSubCall EXCEPT !.pc = "tx", !.op = "subscribe",
                                     !.submoltId = submoltId, !.agentId = agentId]]
  /\ UNCHANGED <<submolts, moderators, subscriptions>>
  /\ UNCHANGED <<voteVars, rlVars, treeVars, cmVars, httpVars, statVars>>

\* the transaction of subscribe: INSERT INTO subscriptions, which
\* UNIQUE(agent_id, submolt_id) refuses for a second row, and the UPDATE of
\* subscriber_count; then the return, of subscribe or of the create that
\* called it
SubscribeTx(p) ==
  LET refused == Subscribed(subscriptions, sm[p].submoltId, sm[p].agentId)
      row == [submolt_id |-> sm[p].submoltId, agent_id |-> sm[p].agentId]
  IN /\ sm[p].pc = "tx"
     /\ subscriptions' = transaction(subscriptions, subscriptions \cup {row}, refused)
     /\ submolts' = transaction(submolts, AddToCount(submolts, sm[p].submoltId, 1), refused)
     /\ sm' = [sm EXCEPT ![p] =
                 IF refused THEN SubThrow(p, PlainError("duplicate key value"))
                 ELSE IF sm[p].op = "create" THEN SubReturn(p, "submolt")
                 ELSE SubReturn(p, "subscribed")]
     /\ UNCHANGED <<moderators, subCalls>>
     /\ UNCHANGED <<voteVars, rlVars, treeVars, cmVars, httpVars, statVars>>

\* unsubscribe(submoltId, agentId): DELETE ... RETURNING id, and the return
\* when no row was deleted
Unsubscribe(p, submoltId, agentId) ==
  LET row == [submolt_id |-> submoltId, agent_id |-> agentId]
  IN /\ SubBegin(p)
     /\ subscriptions' = subscriptions \ {row}
     /\ sm' = [sm EXCEPT ![p] =
                 IF row \in subscriptions
                 THEN [NoSubCall EXCEPT !.pc = "count", !.op = "unsubscribe",
                                        !.submoltId = submoltId, !.agentId = agentId]
                 ELSE [NoSubCall EXCEPT !.pc = "done", !.op = "unsubscribe",
                                        !.agentId = agentId,
                                        !.call = subCalls + 1,
                                        !.ret = "not_subscribed"]]
     /\ UNCHANGED <<submolts, moderators>>
     /\ UNCHANGED <<voteVars, rlVars, treeVars, cmVars, httpVars, statVars>>

\* the UPDATE of subscriber_count of unsubscribe, and its return
UnsubscribeCount(p) ==
  /\ sm[p].pc = "count"
  /\ submolts' = AddToCount(submolts, sm[p].submoltId, -1)
  /\ sm' = [sm EXCEPT ![p] = SubReturn(p, "unsubscribed")]
  /\ UNCHANGED <<moderators, subscriptions, subCalls>>
  /\ UNCHANGED <<voteVars, rlVars, treeVars, cmVars, httpVars, statVars>>

\* create({name, creatorId}): the checks of the name and the SELECT by name
CreateSubmolt(p, name, creatorId) ==
  LET e == ValidateName(name)
      normalizedName == NameShape[name].normalized
  IN /\ SubBegin(p)
     /\ sm' = [sm EXCEPT ![p] =
                 IF e # NoError THEN [NoSubCall EXCEPT !.pc = "failed", !.op = "create", !.err = e]
                 ELSE IF SubmoltNamed(submolts, normalizedName) # {}
                   THEN [NoSubCall EXCEPT !.pc = "failed", !.op = "create",
                                          !.err = ConflictError("Submolt name already taken")]
                 ELSE [NoSubCall EXCEPT !.pc = "insert", !.op = "create",
                                        !.name = normalizedName, !.agentId = creatorId]]
     /\ UNCHANGED <<submolts, moderators, subscriptions>>
     /\ UNCHANGED <<voteVars, rlVars, treeVars, cmVars, httpVars, statVars>>

\* INSERT INTO submolts ... RETURNING id, which UNIQUE(name) refuses for a
\* name taken meanwhile
CreateInsertSubmolt(p) ==
  /\ sm[p].pc = "insert"
  /\ IF SubmoltNamed(submolts, sm[p].name) # {}
       THEN /\ submolts' = submolts
            /\ sm' = [sm EXCEPT ![p] = SubThrow(p, PlainError("duplicate key value"))]
       ELSE /\ submolts' = Append(submolts, [name |-> sm[p].name, subscriber_count |-> 0])
            /\ sm' = [sm EXCEPT ![p].pc = "owner", ![p].submoltId = Len(submolts) + 1]
  /\ UNCHANGED <<moderators, subscriptions, subCalls>>
  /\ UNCHANGED <<voteVars, rlVars, treeVars, cmVars, httpVars, statVars>>

\* INSERT INTO submolt_moderators (submolt_id, agent_id, role) with 'owner'
CreateOwner(p) ==
  /\ sm[p].pc = "owner"
  /\ moderators' = moderators \cup
       {[submolt_id |-> sm[p].submoltId, agent_id |-> sm[p].agentId, role |-> "owner"]}
  /\ sm' = [sm EXCEPT ![p].pc = "subscribe"]
  /\ UNCHANGED <<submolts, subscriptions, subCalls>>
  /\ UNCHANGED <<voteVars, rlVars, treeVars, cmVars, httpVars, statVars>>

\* this.subscribe(submolt.id, creatorId) of create: its SELECT
CreateSubscribe(p) ==
  /\ sm[p].pc = "subscribe"
  /\ sm' = [sm EXCEPT ![p] =
              IF Subscribed(subscriptions, sm[p].submoltId, sm[p].agentId)
              THEN SubReturn(p, "submolt")
              ELSE [sm[p] EXCEPT !.pc = "tx"]]
  /\ UNCHANGED <<submolts, moderators, subscriptions, subCalls>>
  /\ UNCHANGED <<voteVars, rlVars, treeVars, cmVars, httpVars, statVars>>

\* addModerator / removeModerator up to the write: the SELECT of the
\* requester's role and the SELECT of the agent by lower-cased name.  The
\* agents table never changes here, so its read is taken with the one
\* before it.
CheckRequester(p, op, submoltId, requesterId, agentName, role, next) ==
  LET requester == RoleOf(moderators, submoltId, requesterId)
      agent == AgentByName(agentName)
  IN /\ SubBegin(p)
     /\ sm' = [sm EXCEPT ![p] =
                 IF requester = Null \/ requester # "owner"
                 THEN [NoSubCall EXCEPT !.pc = "failed", !.op = op,
                         !.err = ForbiddenError(IF op = "add"
                                                THEN "Only owners can add moderators"
                                                ELSE "Only owners can remove moderators", NoHint)]
                 ELSE IF agent = Null
                   THEN [NoSubCall EXCEPT !.pc = "failed", !.op = op,
                                          !.err = NotFoundError("Agent")]
                 ELSE [NoSubCall EXCEPT !.pc = next, !.op = op, !.submoltId = submoltId,
                                        !.agentId = requesterId, !.target = agent,
                                        !.role = role]]
     /\ UNCHANGED <<submolts, moderators, subscriptions>>
     /\ UNCHANGED <<voteVars, rlVars, treeVars, cmVars, httpVars, statVars>>

\* addModerator(submoltId, requesterId, agentName, role)
AddModerator(p, submoltId, requesterId, agentName, role) ==
  CheckRequester(p, "add", submoltId, requesterId, agentName, role, "upsert")

\* the INSERT ... ON CONFLICT DO UPDATE of addModerator, and its return
AddUpsert(p) ==
  /\ sm[p].pc = "upsert"
  /\ moderators' = Upsert(moderators, sm[p].submoltId, sm[p].target, sm[p].role)
  /\ sm' = [sm EXCEPT ![p] = SubReturn(p, "success")]
  /\ UNCHANGED <<submolts, subscriptions, subCalls>>
  /\ UNCHANGED <<voteVars, rlVars, treeVars, cmVars, httpVars, statVars>>

\* removeModerator(submoltId, requesterId, agentName)
RemoveModerator(p, submoltId, requesterId, agentName) ==
  CheckRequester(p, "remove", submoltId, requesterId, agentName, "-", "target")

\* the SELECT of the target's role: an owner is not removed
RemoveTarget(p) ==
  /\ sm[p].pc = "target"
  /\ sm' = [sm EXCEPT ![p] =
              IF RoleOf(moderators, sm[p].submoltId, sm[p].target) = "owner"
              THEN SubThrow(p, ForbiddenError("Cannot remove owner", NoHint))
              ELSE [sm[p] EXCEPT !.pc = "remove"]]
  /\ UNCHANGED <<submolts, moderators, subscriptions, subCalls>>
  /\ UNCHANGED <<voteVars, rlVars, treeVars, cmVars, httpVars, statVars>>

\* the DELETE of removeModerator, and its return
RemoveDelete(p) ==
  /\ sm[p].pc = "remove"
  /\ moderators' = DeleteModerator(moderators, sm[p].submoltId, sm[p].target)
  /\ sm' = [sm EXCEPT ![p] = SubReturn(p, "success")]
  /\ UNCHANGED <<submolts, subscriptions, subCalls>>
  /\ UNCHANGED <<voteVars, rlVars, treeVars, cmVars, httpVars, statVars>>

\* one submolt, created some time ago, that nobody is subscribed to
OneSubmolt ==
  [submolts |-> <<[name |-> "tech", subscriber_count |-> 0]>>,
   moderators |-> {[submolt_id |-> 1, agent_id |-> "a1", role |-> "owner"]},
   subscriptions |-> {}]

\* subscribe and unsubscribe calls on that submolt
SubSpecInit ==
  /\ VoteInit /\ RateInit(DocumentedLimits)
  /\ TreeInit(<< >>) /\ CommentInit(<< >>)
  /\ HttpInit /\ StatInit /\ SubmoltInit(OneSubmolt)

NextSub ==
  \/ \E p \in SubCallers, a \in Agents : Subscribe(p, 1, a)
  \/ \E p \in SubCallers : SubscribeTx(p)
  \/ \E p \in SubCallers, a \in Agents : Unsubscribe(p, 1, a)
  \/ \E p \in SubCallers : UnsubscribeCount(p)

SubSpec == SubSpecInit /\ [][NextSub]_vars

\* roles addModerator is given
Roles == {"moderator", "owner"}

\* create, addModerator and removeModerator calls one after the other, from
\* no submolt
ModSpecInit ==
  /\ VoteInit /\ RateInit(DocumentedLimits)
  /\ TreeInit(<< >>) /\ CommentInit(<< >>) /\ RestInit

NextMod ==
  \/ \E p \in SubCallers, n \in DOMAIN NameShape, a \in Agents :
       SubQuiet /\ CreateSubmolt(p, n, a)
  \/ \E p \in SubCallers : CreateInsertSubmolt(p)
  \/ \E p \in SubCallers : CreateOwner(p)
  \/ \E p \in SubCallers : CreateSubscribe(p)
  \/ \E p \in SubCallers : SubscribeTx(p)
  \/ \E p \in SubCallers, i \in DOMAIN submolts, a \in Agents, n \in AgentNames, r \in Roles :
       SubQuiet /\ AddModerator(p, i, a, n, r)
  \/ \E p \in SubCallers : AddUpsert(p)
  \/ \E p \in SubCallers, i \in DOMAIN submolts, a \in Agents, n \in AgentNames :
       SubQuiet /\ RemoveModerator(p, i, a, n)
  \/ \E p \in SubCallers : RemoveTarget(p)
  \/ \E p \in SubCallers : RemoveDelete(p)

ModSpec == ModSpecInit /\ [][NextMod]_vars

ValidRefs == {t \in TargetRefs : getTarget(t.targetId, t.targetType).kind = "ok"}

RowsOf(a) == Rows(votes, a.agentId, a.targetId, a.targetType)

StoredOf(a) == Stored(votes, a.agentId, a.targetId, a.targetType)

ScoreOf(a) == TargetScore(postScore, comments, a.targetId, a.targetType)

\* C1: in every reachable state, whatever the interleaving of vote calls, the
\* votes table holds at most one row per (agentId, targetId, targetType).
C1_OneRowPerTriple ==
  \A a \in Agents, t \in TargetRefs :
    Cardinality(Rows(votes, a, t.targetId, t.targetType)) <= 1

\* two calls raced on one triple and the loser's INSERT was refused
C1_Witness ==
  \E p \in Callers : err[p] = "UniqueViolation" /\ Cardinality(RowsOf(arg[p])) = 1

\* the table of the vote state machine: stored vote before and requested
\* direction give the stored vote after, the action and the delta applied to
\* the target's score and to the author's karma
VoteTable(pre, value) ==
  IF pre = 0 /\ value = VOTE_UP THEN [stored |-> 1, action |-> "upvoted", delta |-> 1]
  ELSE IF pre = 0 /\ value = VOTE_DOWN
    THEN [stored |-> -1, action |-> "downvoted", delta |-> -1]
  ELSE IF pre = 1 /\ value = VOTE_UP THEN [stored |-> 0, action |-> "removed", delta |-> -1]
  ELSE IF pre = -1 /\ value = VOTE_DOWN
    THEN [stored |-> 0, action |-> "removed", delta |-> 1]
  ELSE IF pre = 1 /\ value = VOTE_DOWN
    THEN [stored |-> -1, action |-> "changed", delta |-> -2]
  ELSE [stored |-> 1, action |-> "changed", delta |-> 2]

\* C2: a vote by a non-author on an existing target, with no other operation
\* on its triple between its start and its return, leaves the stored vote,
\* returns the action and applies the score and karma deltas of the table.
C2_VoteTable ==
  \A p \in Callers :
    (pc[p] = "done" /\ gh[p].clean) =>
      LET row == VoteTable(gh[p].pre, arg[p].value)
      IN /\ StoredOf(arg[p]) = row.stored
         /\ loc[p].action = row.action
         /\ gh[p].dScore = row.delta
         /\ gh[p].dKarma = row.delta

\* an undisturbed call that flipped a stored vote has returned
C2_Witness ==
  \E p \in Callers :
    /\ pc[p] = "done" /\ gh[p].clean
    /\ gh[p].pre = 1 /\ arg[p].value = VOTE_DOWN
    /\ loc[p].action = "changed"

\* the triples, and the ledger a sequential run of calls leaves behind
Triples == {[agentId |-> a, targetId |-> t.targetId, targetType |-> t.targetType] :
              a \in Agents, t \in ValidRefs}

TripleOf(a) == [agentId |-> a.agentId, targetId |-> a.targetId, targetType |-> a.targetType]

TargetOf(a) == [targetId |-> a.targetId, targetType |-> a.targetType]

EmptyLedger ==
  [stored |-> [t \in Triples |-> 0],
   score |-> [t \in ValidRefs |-> 0],
   karma |-> [a \in Agents |-> 0]]

ApplyCall(l, a) ==
  LET row == VoteTable(l.stored[TripleOf(a)], a.value)
  IN [stored |-> [l.stored EXCEPT ![TripleOf(a)] = row.stored],
      score |-> [l.score EXCEPT ![TargetOf(a)] = @ + row.delta],
      karma |-> [l.karma EXCEPT ![AuthorOf(a)] = @ + row.delta]]

RECURSIVE RunCalls(_, _)
RunCalls(l, order) ==
  IF order = << >> THEN l ELSE RunCalls(ApplyCall(l, Head(order)), Tail(order))

\* the ledger the store holds now
Ledger ==
  [stored |-> [t \in Triples |-> Stored(votes, t.agentId, t.targetId, t.targetType)],
   score |-> [t \in ValidRefs |-> TargetScore(postScore, comments, t.targetId, t.targetType)],
   karma |-> karma]

\* the orders in which the calls that returned can be put
Orders ==
  LET cs == BagToSet(okCalls)
      n == BagCardinality(okCalls)
  IN {o \in [1..n -> cs] :
        \A c \in cs : Cardinality({k \in 1..n : o[k] = c}) = CopiesIn(c, okCalls)}

SumStored(t) ==
  LET vals == {r \in votes : r.target_id = t.targetId /\ r.target_type = t.targetType}
      up == Cardinality({r \in vals : r.value = 1})
      down == Cardinality({r \in vals : r.value = -1})
  IN up - down

\* C3: once all vote calls have finished, the stored votes, the scores and
\* the karma are what some sequential order of the calls that returned
\* produces, and every target's score is the sum of the votes stored on it.
C3_Linearizable ==
  Quiescent =>
    /\ \E o \in Orders : RunCalls(EmptyLedger, o) = Ledger
    /\ \A t \in ValidRefs : Ledger.score[t] = SumStored(t)

\* C4: a vote whose score update or karma update fails leaves the vote row of
\* its triple as it was before the call.
C4_AllOrNothing ==
  \A p \in Callers :
    (pc[p] = "failed" /\ err[p] = "DatabaseError" /\ gh[p].clean) =>
      StoredOf(arg[p]) = gh[p].pre

\* what every step that starts a call of caller p shows, whatever its arguments
Starts(p) == Idle(p) /\ pc'[p] \in {"write", "failed"}

\* C5: a vote by the target's author fails with a BadRequest error, whatever
\* the direction, and changes no vote row, score or karma.
C5_SelfVoteRejected ==
  [][\A p \in Callers :
       Starts(p) =>
         \A a \in Agents, t \in TargetRefs, v \in Values :
           (/\ \/ /\ t.targetType = "post" /\ t.targetId \in PostIds
                  /\ PostAuthor[t.targetId] = a
               \/ /\ t.targetType = "comment" /\ t.targetId \in CommentIds
                  /\ CommentAuthor[t.targetId] = a
            /\ VoteBegin(p, a, t.targetId, t.targetType, v))
           => /\ pc'[p] = "failed"
              /\ err'[p] = "BadRequestError: Cannot vote on your own content"
              /\ UNCHANGED <<votes, postScore, comments, karma>>]_vars

\* a self-vote has been rejected while a vote is stored on the target
C5_Witness ==
  \E p \in Callers :
    /\ pc[p] = "failed"
    /\ err[p] = "BadRequestError: Cannot vote on your own content"
    /\ votes # {}

\* C6: a vote on a target id that does not exist fails with a not-found
\* error, a vote with a target type other than post or comment fails with a
\* BadRequest error, and neither changes a vote row, a score or a karma.
C6_BadTargetRejected ==
  [][\A p \in Callers :
       Starts(p) =>
         \A a \in Agents, t \in TargetRefs, v \in Values :
           (/\ \/ t.targetType = "post" /\ t.targetId \notin PostIds
               \/ t.targetType = "comment" /\ t.targetId \notin CommentIds
               \/ t.targetType \notin {"post", "comment"}
            /\ VoteBegin(p, a, t.targetId, t.targetType, v))
           => /\ pc'[p] = "failed"
              /\ err'[p] =
                   IF t.targetType = "post" THEN "NotFoundError: Post not found"
                   ELSE IF t.targetType = "comment"
                     THEN "NotFoundError: Comment not found"
                   ELSE "BadRequestError: Invalid target type"
              /\ UNCHANGED <<votes, postScore, comments, karma>>]_vars

\* a vote with an unknown target type has been rejected
C6_Witness ==
  \E p \in Callers :
    pc[p] = "failed" /\ err[p] = "BadRequestError: Invalid target type"

\* C7: from no stored vote, the same direction applied twice in a row returns
\* upvoted/downvoted, then removed, ends with no stored vote and puts the
\* target's score and the author's karma back to what they were.
C7_RoundTrip ==
  \A p \in Callers :
    (/\ pc[p] = "done"
     /\ first.owner = p
     /\ first.arg = arg[p]
     /\ first.pre = 0) =>
      /\ first.action = IF arg[p].value = VOTE_UP THEN "upvoted" ELSE "downvoted"
      /\ loc[p].action = "removed"
      /\ RowsOf(arg[p]) = {}
      /\ ScoreOf(arg[p]) = first.s0
      /\ karma[AuthorOf(arg[p])] = first.k0

\* the second of two identical votes in a row has returned
C7_Witness ==
  \E p \in Callers :
    /\ pc[p] = "done"
    /\ first.owner = p
    /\ first.arg = arg[p]
    /\ first.pre = 0
    /\ arg[p].value = VOTE_DOWN

Running(p) == pc[p] \in {"write", "score", "karma"}

\* C8: a call that flips a stored vote moves the target's score and the
\* author's karma by 2 in the new direction, each in one update and in no
\* other step of the call, and never has two rows stored for its triple.
C8_FlipInOneUpdate ==
  [][\A p \in Callers :
       (Running(p) /\ loc[p].action = "changed" /\ pc'[p] # pc[p]) =>
         /\ ScoreOf(arg[p])' - ScoreOf(arg[p]) =
              IF pc[p] = "score" THEN 2 * arg[p].value ELSE 0
         /\ karma'[AuthorOf(arg[p])] - karma[AuthorOf(arg[p])] =
              IF pc[p] = "karma" THEN 2 * arg[p].value ELSE 0
         /\ Cardinality(RowsOf(arg[p])) <= 1
         /\ Cardinality(RowsOf(arg[p])') <= 1]_vars

\* a flip from up to down has applied its score update
C8_Witness ==
  \E p \in Callers :
    /\ pc[p] = "karma"
    /\ loc[p].action = "changed"
    /\ loc[p].existingVote.value = 1
    /\ gh[p].dScore = -2

\* C9: when no vote call is running, a comment's upvotes counter is the
\* number of +1 votes stored on it, its downvotes counter the number of -1
\* votes stored on it, and its score is upvotes minus downvotes.
C9_CommentTallies ==
  Quiescent =>
    \A c \in CommentIds :
      LET on == {r \in votes : r.target_id = c /\ r.target_type = "comment"}
      IN /\ comments[c].upvotes = Cardinality({r \in on : r.value = 1})
         /\ comments[c].downvotes = Cardinality({r \in on : r.value = -1})
         /\ comments[c].score = comments[c].upvotes - comments[c].downvotes

\* C10: getVotes(agentId, targets) resolves to a map with an entry for a
\* requested target exactly when the agent has a vote stored on it, the entry
\* being that +1 or -1, and changes nothing.
C10_GetVotes ==
  [][\A a \in Agents, ts \in TargetLists :
       GetVotes(a, ts) =>
         LET asked == {ts[k] : k \in 1..Len(ts)}
             voted == {t \in asked : Rows(votes, a, t.targetId, t.targetType) # {}}
         IN /\ gv'.status = "ok"
            /\ DOMAIN gv'.map = {t.targetId : t \in voted}
            /\ \A t \in voted :
                 gv'.map[t.targetId] = Stored(votes, a, t.targetId, t.targetType)
            /\ \A i \in DOMAIN gv'.map : gv'.map[i] \in {1, -1}
            /\ UNCHANGED <<votes, postScore, comments, karma>>]_vars

\* ------------------------------------------------- claims of the rate limiter
\* the limit of the check of the last step, and the history of its key
LastLimit == rateLimits[last.type]

LastSeen == seen[last.key]

WindowMs(limit) == limit.window * MS_PER_SECOND

\* C11: for a limit with max >= 1 and a key with no history, the first max
\* checks made within one window of the first are admitted with
\* remaining = max-1, max-2, ..., 0 in that order, and the check after them
\* inside the same window is denied with remaining = 0.
C11_FirstMaxAdmitted ==
  (last # NoCheck /\ LastLimit.max >= 1
     /\ last.at - LastSeen.first <= WindowMs(LastLimit)) =>
    /\ LastSeen.n <= LastLimit.max =>
         result.allowed /\ result.remaining = LastLimit.max - LastSeen.n
    /\ LastSeen.n = LastLimit.max + 1 =>
         ~result.allowed /\ result.remaining = 0

\* a step that is one call of checkLimit
Checked == checks' = checks + 1

\* C12: a denied check leaves the Map as it was, every key of it, so the
\* decision a check of any key gets next is the one it would have got without
\* the denied check: denied retries never delay the next admission of the
\* key and never change the remaining of a later check.
C12_DeniedLeavesStore ==
  [][(Checked /\ ~result'.allowed) =>
       /\ storage' = storage
       /\ \A r \in Reqs, ty \in LimitTypes :
            checkLimit(storage', getKey(r, ty), rateLimits[ty], now').result
              = checkLimit(storage, getKey(r, ty), rateLimits[ty], now).result]_vars

\* an admitted check of a key that was denied since its first admitted check
C12_Witness ==
  /\ last # NoCheck
  /\ result.allowed
  /\ LastLimit.max = 1
  /\ LastSeen.n = 3
  /\ Len(admits[last.key]) = 2

\* C13: for a limit with max >= 1, once a check of a key was denied with
\* resetAt = r, a check of that key at an instant strictly after r, with no
\* admitted check of the key in between, is admitted.
C13_AdmittedAfterReset ==
  [][(/\ Checked
      /\ last'.key \in DOMAIN pend
      /\ rateLimits[last'.type].max >= 1
      /\ last'.at > pend[last'.key]) => result'.allowed]_vars

\* under max = 2: two admitted checks, a denied one, and a third admitted
\* once the window of the first has passed
C13_Witness ==
  /\ last # NoCheck
  /\ result.allowed
  /\ LastLimit.max = 2
  /\ checks = 4
  /\ DOMAIN admits = {last.key}
  /\ Len(admits[last.key]) = 3
  /\ admits[last.key][3] > admits[last.key][1] + WindowMs(LastLimit)

\* the timestamps stored for key that are no older than w milliseconds at t
InWindow(key, w, t) ==
  {e \in {Entries(storage, key)[i] : i \in 1..Len(Entries(storage, key))} : e >= t - w}

Least(S) == CHOOSE m \in S : \A e \in S : m <= e

\* the least number of whole seconds that cover ms milliseconds
SecondsUp(ms) ==
  CHOOSE n \in 0..(ms + 1) : n * MS_PER_SECOND >= ms /\ (n - 1) * MS_PER_SECOND < ms

\* C14: every check returns resetAt = oldest in-window timestamp + window when
\* the key has in-window events and now + window otherwise, and retryAfter = 0
\* when allowed and ceil((resetAt - now) / 1 second) when denied; with max = 2
\* and window = 60 s, after admitted checks at 0 s and 1 s the check at 2 s is
\* denied with retryAfter = 58.
C14_Decision ==
  [][Checked =>
       LET limit == rateLimits[last'.type]
           inWin == InWindow(last'.key, WindowMs(limit), last'.at)
           reset == IF inWin # {} THEN Least(inWin) + WindowMs(limit)
                    ELSE last'.at + WindowMs(limit)
       IN /\ result'.resetAt = reset
          /\ result'.allowed => result'.retryAfter = 0
          /\ ~result'.allowed => result'.retryAfter = SecondsUp(reset - last'.at)
          /\ (/\ limit = [max |-> 2, window |-> 60]
              /\ Entries(admits, last'.key) = <<0, MS_PER_SECOND>>
              /\ last'.at = 2 * MS_PER_SECOND)
             => ~result'.allowed /\ result'.retryAfter = 58]_vars

\* the limit type a key was derived for
TypeOf(key) == CHOOSE ty \in LimitTypes : \E r \in Reqs : getKey(r, ty) = key

\* C15: for every key and every interval of the length of its window, both
\* ends included and wherever it starts, at most max checks of the key are
\* admitted at instants inside the interval: any max + 1 admitted checks
\* span more than the window, whatever checks and cleanups ran.
C15_SlidingWindow ==
  \A k \in DOMAIN admits :
    \A i, j \in 1..Len(admits[k]) :
      j - i >= rateLimits[TypeOf(k)].max =>
        admits[k][j] - admits[k][i] > WindowMs(rateLimits[TypeOf(k)])

\* C16: a check of one key, admitted or denied, leaves what the Map holds
\* for every other key as it was, and with it the decision a check of any
\* other action class or caller gets: a quota exhausted under one key is
\* not felt under another.
C16_OtherKeysUntouched ==
  [][Checked =>
       \A r \in Reqs, ty \in LimitTypes :
         getKey(r, ty) # last'.key =>
           /\ (getKey(r, ty) \in DOMAIN storage') = (getKey(r, ty) \in DOMAIN storage)
           /\ Entries(storage', getKey(r, ty)) = Entries(storage, getKey(r, ty))
           /\ checkLimit(storage', getKey(r, ty), rateLimits[ty], now').result
                = checkLimit(storage, getKey(r, ty), rateLimits[ty], now).result]_vars

\* a check is admitted under one key while another key has used up its quota
\* and was denied
C16_Witness ==
  /\ last # NoCheck
  /\ result.allowed
  /\ \E k \in DOMAIN pend :
       /\ k # last.key
       /\ k \in DOMAIN storage
       /\ Len(storage[k]) = rateLimits[TypeOf(k)].max
       /\ Len(storage[k]) >= 1

\* the requests the limiter has decided under key k
Decided(k) == {q \in Requests : mw[q].pc = "done" /\ ~mw[q].skip /\ mw[q].key = k}

AdmittedOf(k) == {q \in Decided(k) : mw[q].result.allowed}

Smaller(a, b) == IF a < b THEN a ELSE b

\* C17: whatever way the requests of one key interleave at the awaits of the
\* middleware, when their checks fall within one window of a key that had no
\* history, exactly min(N, max) of the N are admitted and the key's stored
\* history is exactly the instants of the admitted ones, each as often as it
\* was admitted: no append is lost.
C17_AtomicCheck ==
  \A p \in Requests :
    LET k == mw[p].key
        limit == rateLimits[mw[p].type]
    IN (/\ p \in Decided(k)
        /\ \A a, b \in Decided(k) : mw[a].at - mw[b].at <= WindowMs(limit)) =>
         /\ Cardinality(AdmittedOf(k)) = Smaller(Cardinality(Decided(k)), limit.max)
         /\ Len(Entries(storage, k)) = Cardinality(AdmittedOf(k))
         /\ \A q \in AdmittedOf(k) :
              Cardinality({i \in 1..Len(Entries(storage, k)) :
                             Entries(storage, k)[i] = mw[q].at})
                = Cardinality({o \in AdmittedOf(k) : mw[o].at = mw[q].at})

\* three requests of one key under max = 2; the first to arrive was overtaken
\* by the two others between its awaits and is the one denied
C17_Witness ==
  /\ \A q \in Requests : mw[q].pc = "done" /\ ~mw[q].skip /\ mw[q].key = mw["q1"].key
  /\ rateLimits[mw["q1"].type].max = 2
  /\ ~mw["q1"].result.allowed
  /\ mw["q2"].result.allowed
  /\ mw["q3"].result.allowed
  /\ mw["q3"].at < mw["q1"].at

\* C19: a request whose check was not skipped and was denied has next called
\* once, with a RateLimitError of status 429 and code RATE_LIMITED whose
\* retryAfter is the decision's, and no handler behind the limiter runs for
\* it; a request whose check was admitted has next called once, without an
\* error.
C19_DeniedIsRejected ==
  \A q \in Requests :
    (mw[q].pc = "done" /\ ~mw[q].skip) =>
      /\ Len(mw[q].nextArgs) = 1
      /\ ~mw[q].result.allowed =>
           /\ mw[q].nextArgs[1].name = "RateLimitError"
           /\ mw[q].nextArgs[1].statusCode = 429
           /\ mw[q].nextArgs[1].code = "RATE_LIMITED"
           /\ mw[q].nextArgs[1].retryAfter = mw[q].result.retryAfter
           /\ mw[q].handled = 0
      /\ mw[q].result.allowed =>
           /\ mw[q].nextArgs[1] = NoError
           /\ mw[q].handled = 1

\* one request went on to its handler, another was rejected and told to
\* retry in 59 seconds
C19_Witness ==
  \E a, b \in Requests :
    /\ mw[a].pc = "done" /\ ~mw[a].skip /\ mw[a].result.allowed
    /\ mw[a].handled = 1
    /\ mw[b].pc = "done" /\ ~mw[b].skip /\ ~mw[b].result.allowed
    /\ mw[b].nextArgs = <<RateLimitError(Message[mw[b].type], 59)>>

\* how often timestamp e is stored under key
Held(st, key, e) ==
  Cardinality({i \in 1..Len(Entries(st, key)) : Entries(st, key)[i] = e})

\* a step that is one run of the cleanup timer
Swept == nextSweep' # nextSweep

\* C18: a run of the cleanup, wherever it falls between the checks, leaves
\* under every key every timestamp that is at most one hour old, as often as
\* it was stored: none appended by a check within the last hour is removed
\* or overwritten.
C18_SweepKeepsLastHour ==
  [][Swept =>
       \A k \in DOMAIN storage :
         \A i \in 1..Len(storage[k]) :
           storage[k][i] >= now - CLEANUP_HORIZON_MS =>
             Held(storage', k, storage[k][i]) = Held(storage, k, storage[k][i])]_vars

\* the cleanup has just run on a key with two admitted checks: it dropped
\* the one older than an hour and kept the one appended an hour later
C18_Witness ==
  \E k \in DOMAIN storage :
    /\ nextSweep = now + CLEANUP_INTERVAL_MS
    /\ Len(admits[k]) = 2
    /\ admits[k][1] < now - CLEANUP_HORIZON_MS
    /\ admits[k][2] >= now - CLEANUP_HORIZON_MS
    /\ storage[k] = <<admits[k][2]>>

\* the identity the key is meant to carry: the token when one is attached,
\* else the address when one is known, else the anonymous bucket
Identity(req) ==
  IF req.token # Null THEN req.token
  ELSE IF req.ip # Null THEN req.ip
  ELSE "anonymous"

\* requests whose key has been derived
Keyed == {q \in Requests : mw[q].pc = "key"}

\* C20: the key of a request is 'rl:<action class>:<identity>', the identity
\* being the token when one is attached, else the network address when one
\* is known, else 'anonymous'; two requests have the same key exactly when
\* they have the same action class and the same resolved identity.
C20_KeyOfRequest ==
  /\ \A q \in Keyed :
       mw[q].key = "rl:" \o mw[q].type \o ":" \o Identity(mw[q].req)
  /\ \A p \in Keyed, q \in Keyed :
       (mw[p].key = mw[q].key) <=>
         (mw[p].type = mw[q].type /\ Identity(mw[p].req) = Identity(mw[q].req))

\* one caller's token seen from two addresses gives one key
C20_Witness ==
  \E p \in Keyed, q \in Keyed :
    /\ mw[p].req = [token |-> "tokA", ip |-> "10.0.0.1"]
    /\ mw[q].req = [token |-> "tokA", ip |-> "::1"]
    /\ mw[p].type = "comments" /\ mw[q].type = "comments"
    /\ mw[p].key = "rl:comments:tokA" /\ mw[q].key = "rl:comments:tokA"

\* C23 as stated: in every reachable state every timestamp stored under a
\* key is within the key's window of the current time.
C23_StoredWithinWindow ==
  \A k \in DOMAIN storage :
    \A i \in 1..Len(storage[k]) :
      storage[k][i] >= now - WindowMs(rateLimits[TypeOf(k)])

\* C23: right after an admitted check, every timestamp stored under the
\* checked key is within the key's window of the instant of the check, and
\* none is later than it; between admitted checks stored timestamps age in
\* place.
C23_WithinWindowOnAdmit ==
  (last # NoCheck /\ result.allowed) =>
    \A i \in 1..Len(Entries(storage, last.key)) :
      /\ storage[last.key][i] >= last.at - WindowMs(LastLimit)
      /\ storage[last.key][i] <= last.at

\* an admitted check has just dropped a timestamp that had aged out of the
\* window, with no cleanup run so far
C23_Witness ==
  /\ last # NoCheck
  /\ result.allowed
  /\ nextSweep = CLEANUP_INTERVAL_MS
  /\ Len(admits[last.key]) = 2
  /\ admits[last.key][1] < last.at - WindowMs(LastLimit)
  /\ storage[last.key] = <<last.at>>

\* C24: for a limit whose window is at most one hour, every check returns
\* the decision (allowed, remaining, limit, resetAt, retryAfter) that the
\* same check returns in the run of the same timed checks in which the
\* cleanup never fires, wherever cleanups fall between the checks.
C24_SweepIsHousekeeping ==
  [][(Checked /\ WindowMs(rateLimits[last'.type]) <= CLEANUP_HORIZON_MS) =>
       result' = checkLimit(unswept, last'.key, rateLimits[last'.type], now).result]_vars

\* a check of a key decided after a cleanup whose cutoff lay beyond an
\* instant at which the key had been admitted: the cleanup had removed it
C24_Witness ==
  /\ last # NoCheck
  /\ WindowMs(LastLimit) <= CLEANUP_HORIZON_MS
  /\ nextSweep > CLEANUP_INTERVAL_MS
  /\ \E i \in 1..Len(Entries(admits, last.key)) :
       admits[last.key][i] < (nextSweep - CLEANUP_INTERVAL_MS) - CLEANUP_HORIZON_MS

\* how often id occurs in array
Occurs(array, id) == Cardinality({i \in 1..Len(array) : array[i] = id})

\* position of the comment with this id in the flat list
Pos(id) == CHOOSE k \in 1..Len(flat) : flat[k].id = id

\* the arrays of the forest: the returned one and every replies array
Arrays == {tree.roots} \cup {tree.replies[i] : i \in DOMAIN tree.replies}

\* C25: for a flat list with distinct ids, every comment whose parent id is
\* the id of a comment of the list is in that parent's replies array, once,
\* and in no other replies array nor in the returned root array; the list
\* [1 (root), 2 (parent 1), 3 (parent 1), 4 (parent 2)] gives roots [1],
\* 1.replies = [2, 3], 2.replies = [4].
C25_ChildUnderParent ==
  builds > 0 =>
    /\ \A k \in 1..Len(flat) :
         flat[k].parent_id \in IdsOf(flat) =>
           /\ Occurs(tree.replies[flat[k].parent_id], flat[k].id) = 1
           /\ Occurs(tree.roots, flat[k].id) = 0
           /\ \A i \in IdsOf(flat) \ {flat[k].parent_id} :
                Occurs(tree.replies[i], flat[k].id) = 0
    /\ flat = DocumentedExample =>
         /\ tree.roots = <<1>>
         /\ tree.replies[1] = <<2, 3>>
         /\ tree.replies[2] = <<4>>
         /\ tree.replies[3] = << >>
         /\ tree.replies[4] = << >>

\* the documented example has been built
C25_Witness ==
  /\ builds > 0
  /\ flat = DocumentedExample
  /\ tree.replies[1] = <<2, 3>>

\* C26: a comment is in the returned root array exactly when its parent id
\* is null or is not the id of a comment of the list, and then once: a
\* comment whose parent is missing from the list is promoted, not dropped.
C26_RootsExactly ==
  builds > 0 =>
    \A k \in 1..Len(flat) :
      /\ Occurs(tree.roots, flat[k].id) =
           (IF flat[k].parent_id = NullId \/ flat[k].parent_id \notin IdsOf(flat)
            THEN 1 ELSE 0)
      /\ Occurs(tree.roots, flat[k].id) = 0 =>
           \E i \in IdsOf(flat) : Occurs(tree.replies[i], flat[k].id) = 1

\* a comment whose parent is not in the list has been promoted next to a
\* top-level comment
C26_Witness ==
  /\ builds > 0
  /\ \E k \in 1..Len(flat), j \in 1..Len(flat) :
       /\ flat[k].parent_id # NullId
       /\ flat[k].parent_id \notin IdsOf(flat)
       /\ flat[j].parent_id = NullId
       /\ Occurs(tree.roots, flat[k].id) = 1
       /\ Occurs(tree.roots, flat[j].id) = 1

\* every array of the forest lists its members in the order of the flat list
InInputOrder ==
  \A a \in Arrays :
    \A i \in 1..Len(a), j \in 1..Len(a) : i < j => Pos(a[i]) < Pos(a[j])

RowsIn(id, postId) ==
  {k \in 1..Len(commentRows) : commentRows[k].id = id /\ commentRows[k].post_id = postId}

\* every stored comment is at depth 0 without a parent and one below its
\* parent otherwise, the parent being a comment of the same post, and no
\* deeper than 10
WellNested ==
  \A k \in 1..Len(commentRows) :
    LET r == commentRows[k]
    IN /\ r.depth <= MAX_DEPTH
       /\ IF r.parent_id = NullId THEN r.depth = 0
          ELSE \E j \in RowsIn(r.parent_id, r.post_id) :
                 r.depth = commentRows[j].depth + 1

\* caller p's create reads its parent in this step
ReadsParent(p) == cc[p].pc = "parent" /\ cc'[p].pc # "parent"

\* the parent named is no comment of the post, or a reply to it would be
\* deeper than 10
Unplaceable(p) ==
  \/ RowsIn(cc[p].parentId, cc[p].postId) = {}
  \/ \E j \in RowsIn(cc[p].parentId, cc[p].postId) : commentRows[j].depth + 1 > MAX_DEPTH

\* C28: after any creations, interleaved in any way, every stored comment
\* has depth 0 if it has no parent and depth(parent) + 1 otherwise, its
\* parent is a comment of the same post, and its depth is at most 10; a
\* create whose parent is missing from the post or whose depth would exceed
\* 10 throws, and neither the step that throws nor the steps of the call
\* before it change the comments table or the post's comment count.
C28_DepthInvariant ==
  /\ []WellNested
  /\ [][\A p \in Creators :
          /\ creates' = creates + 1 =>
               (commentRows' = commentRows /\ commentCount' = commentCount)
          /\ (ReadsParent(p) /\ Unplaceable(p)) =>
               /\ cc'[p].pc = "thrown"
               /\ cc'[p].err \in {NotFoundError("Parent comment"),
                                  BadRequestError("Maximum comment depth exceeded")}
               /\ commentRows' = commentRows
               /\ commentCount' = commentCount]_vars

\* one create has stored a reply at depth 10 and been counted, another has
\* been refused a reply below the deepest comment
C28_Witness ==
  \E p \in Creators, q \in Creators :
    /\ cc[p].pc = "thrown"
    /\ cc[p].err = BadRequestError("Maximum comment depth exceeded")
    /\ cc[q].pc = "done"
    /\ cc[q].id = Len(commentRows)
    /\ commentRows[cc[q].id].depth = MAX_DEPTH
    /\ commentCount["p1"] = MAX_DEPTH + 2

\* the request carries the API key of a stored agent under the bearer scheme
Authenticated(h) ==
  LET token == extractToken(h.req.authorization)
  IN Truthy(token) /\ validateApiKey(token) /\ findByApiKey(token) # Null

\* the general limiter has derived the key of request q
GeneralKeyed(q) == http[q].pc # "new" /\ mw[q].pc \in {"key", "done"}

\* C21: for a request that carries a valid token the general limiter checks
\* and consumes the quota keyed by the token, so two authenticated callers
\* from one address are checked under different keys.
C21_TokenKeyedQuota ==
  /\ \A q \in Requests :
       (GeneralKeyed(q) /\ Authenticated(http[q])) =>
         mw[q].key = "rl:requests:" \o extractToken(http[q].req.authorization)
  /\ \A p \in Requests, q \in Requests :
       ( /\ GeneralKeyed(p) /\ GeneralKeyed(q)
         /\ Authenticated(http[p]) /\ Authenticated(http[q])
         /\ extractToken(http[p].req.authorization) # extractToken(http[q].req.authorization)
         /\ http[p].req.ip = http[q].req.ip ) =>
         mw[p].key # mw[q].key

\* authentication middleware and route handlers, by the names the trace uses
Guarded == {"requireAuth", "handler", "respond", "health", "root", "skill"}

\* none of them has run for the request
Unhandled(h) == \A i \in 1..Len(h.trace) : h.trace[i] \notin Guarded

\* whatever of them has run, ran after the limiter admitted the request
AdmittedFirst(q) ==
  \A i \in 1..Len(http[q].trace) :
    http[q].trace[i] \in Guarded =>
      /\ \E j \in 1..(i - 1) : http[q].trace[j] = "requestLimiter"
      /\ mw[q].pc = "done"
      /\ mw[q].result.allowed

\* the general limiter has refused the request
Refused(q) == http[q].pc # "new" /\ mw[q].pc = "done" /\ ~mw[q].result.allowed

\* it was answered 429 by the error handler and nothing else ran
Rejected(q) ==
  /\ http[q].res.status = 429
  /\ http[q].trace = <<"requestLimiter", "errorHandler">>
  /\ Unhandled(http[q])

AuthDone(h) ==
  /\ h.pc \in {"handler", "sent"}
  /\ \E i \in 1..Len(h.trace) : h.trace[i] = "requireAuth"

\* the header has exactly two space-separated parts, the first is bearer in
\* any case, the second has the format of an API key and is a stored key
GoodHeader(header) ==
  /\ header # << >>
  /\ Len(Split(header)) = 2
  /\ Split(header)[1] \in {"Bearer", "bearer", "BEARER"}
  /\ Split(header)[2] # ""
  /\ KeyShape[Split(header)[2]].prefix
  /\ KeyShape[Split(header)[2]].rest = 64
  /\ KeyShape[Split(header)[2]].hex
  /\ Split(header)[2] \in DOMAIN KeyAgent

\* C29: requireAuth lets the request go on to the handler, with req.agent
\* and req.token set, exactly when the Authorization header has two
\* space-separated parts, the scheme is bearer in any case, the token has
\* the API-key format and is the key of a stored agent; otherwise it
\* forwards an UnauthorizedError (401), sets neither req.agent nor
\* req.token, and the handler does not run.
C29_RequireAuth ==
  \A q \in Requests :
    AuthDone(http[q]) =>
      IF GoodHeader(http[q].req.authorization)
      THEN /\ http[q].token = Split(http[q].req.authorization)[2]
           /\ http[q].agent = KeyAgent[http[q].token]
           /\ \E i \in 1..Len(http[q].trace) : http[q].trace[i] = "handler"
      ELSE /\ http[q].err.name = "UnauthorizedError"
           /\ http[q].err.statusCode = 401
           /\ http[q].err.code = "UNAUTHORIZED"
           /\ http[q].res.status = 401
           /\ http[q].token = Null
           /\ http[q].agent = Null
           /\ \A i \in 1..Len(http[q].trace) : http[q].trace[i] # "handler"

\* one request went on under a lower-case scheme as agent a1, another with
\* three parts in its header was turned away
C29_Witness ==
  \E p \in Requests, q \in Requests :
    /\ http[p].req.authorization = <<"bearer", " ", "moltbook_A">>
    /\ http[p].pc = "handler"
    /\ http[p].agent = "a1"
    /\ http[q].req.authorization = <<"Bearer", " ", "moltbook_A", " ", "x">>
    /\ http[q].pc = "sent"
    /\ http[q].err.message = "No authorization token provided"

\* the status each class of errors.js carries
FixedStatus ==
  [n \in {"BadRequestError", "UnauthorizedError", "ForbiddenError", "NotFoundError",
          "ConflictError", "RateLimitError"} |->
     IF n = "BadRequestError" THEN 400 ELSE IF n = "UnauthorizedError" THEN 401
     ELSE IF n = "ForbiddenError" THEN 403 ELSE IF n = "NotFoundError" THEN 404
     ELSE IF n = "ConflictError" THEN 409 ELSE 429]

\* messages and resources the constructors are tried on
Texts == {"Bad input", "User", "Comment", "Parent comment"}

\* C30: each error class carries its fixed status (BadRequest 400,
\* Unauthorized 401, Forbidden 403, NotFound 404 with the message
\* '<resource> not found', Conflict 409, RateLimit 429), and the error
\* handler answers an ApiError with that status and the body its toJSON
\* gives: success false, error the message, code and hint.
C30_ErrorAnswer ==
  /\ \A m \in Texts :
       /\ BadRequestError(m).statusCode = 400
       /\ UnauthorizedError(m, NoHint).statusCode = 401
       /\ ForbiddenError(m, NoHint).statusCode = 403
       /\ NotFoundError(m).statusCode = 404
       /\ ConflictError(m).statusCode = 409
       /\ RateLimitError(m, 60).statusCode = 429
  /\ NotFoundError("User").message = "User not found"
  /\ \A q \in Requests :
       (http[q].pc = "sent" /\ InstanceOfApiError(http[q].err)) =>
         /\ http[q].err.statusCode = FixedStatus[http[q].err.name]
         /\ http[q].res.status = FixedStatus[http[q].err.name]
         /\ http[q].res.body = toJSON(http[q].err)
         /\ http[q].res.body.success = FALSE
         /\ http[q].res.body.error = http[q].err.message
         /\ http[q].res.body.code = http[q].err.code
         /\ http[q].res.body.hint = http[q].err.hint

\* one request was answered 404 for a comment that is not there, another
\* 429 by the limiter
C30_Witness ==
  \E p \in Requests, q \in Requests :
    /\ http[p].pc = "sent"
    /\ http[p].err = NotFoundError("Comment")
    /\ http[p].res = [status |-> 404,
                      body |-> [success |-> FALSE, error |-> "Comment not found",
                                code |-> "NOT_FOUND", hint |-> NoHint]]
    /\ http[q].pc = "sent"
    /\ http[q].err.name = "RateLimitError"
    /\ http[q].res.status = 429

\* C31: every stored vote row has value +1 or -1, and a call whose value is
\* anything else is rejected before it writes a vote row, a score or karma:
\* no such call gets past the checks at the head of vote().
C31_ValidDirection ==
  /\ \A r \in votes : r.value \in {VOTE_UP, VOTE_DOWN}
  /\ \A p \in Callers :
       pc[p] \in {"write", "score", "karma", "done"} =>
         arg[p].value \in {VOTE_UP, VOTE_DOWN}

\* C32: a check reports retryAfter = 0 exactly when it is allowed; every
\* denied check reports at least one second, also when it is denied at the
\* very instant resetAt and when the key has no event in the window.
C32_RetryAfterZeroIffAllowed ==
  last # NoCheck =>
    /\ result.allowed <=> result.retryAfter = 0
    /\ ~result.allowed => result.retryAfter >= 1

\* the sum of the values stored on the targets an agent authored
SumAuthored(a) ==
  LET mine == {t \in ValidRefs : getTarget(t.targetId, t.targetType).author_id = a}
      rows == {r \in votes : \E t \in mine : r.target_id = t.targetId /\ r.target_type = t.targetType}
  IN Cardinality({r \in rows : r.value = 1}) - Cardinality({r \in rows : r.value = -1})

\* C33: after any sequence of vote calls made one at a time, every target's
\* score has moved from its initial value (0) by the sum of the values of
\* the vote rows stored for it, and every agent's karma has moved from its
\* initial value (0) by the sum of the values of the rows stored on the
\* targets it authored.
C33_NetEffect ==
  Quiescent =>
    /\ \A t \in ValidRefs :
         TargetScore(postScore, comments, t.targetId, t.targetType) = SumStored(t)
    /\ \A a \in Agents : karma[a] = SumAuthored(a)

\* three calls have returned: an upvote of the post flipped to a downvote,
\* and an upvote of the comment
C33_Witness ==
  /\ Quiescent
  /\ calls >= 3
  /\ postScore["i1"] = -1
  /\ comments["i2"].score = 1
  /\ Cardinality(votes) = 2
  /\ karma["a1"] = 0

\* the list admits depths under which every parent that is in the list is
\* less deep than its child
Layered ==
  \E depth \in [IdsOf(flat) -> 0..Len(flat)] :
    \A k \in 1..Len(flat) :
      flat[k].parent_id \in IdsOf(flat) => depth[flat[k].parent_id] < depth[flat[k].id]

\* the ids found in the replies arrays of the nodes of a set
RepliesOf(nodes) ==
  UNION {{tree.replies[i][k] : k \in 1..Len(tree.replies[i])} : i \in nodes}

\* the nodes met from a set by following replies arrays at most n times
RECURSIVE Closure(_, _)
Closure(nodes, n) ==
  IF n = 0 THEN nodes ELSE Closure(nodes \cup RepliesOf(nodes), n - 1)

\* the nodes of the subtree of a node, the node included
Subtree(id) == Closure({id}, Len(flat))

\* the nodes below a node
Below(id) == Closure(RepliesOf({id}), Len(flat))

RootIds == {tree.roots[k] : k \in 1..Len(tree.roots)}

\* the number of arrays of the forest that hold the id
ListsHolding(id) ==
  (IF Occurs(tree.roots, id) > 0 THEN 1 ELSE 0)
  + Cardinality({i \in DOMAIN tree.replies : Occurs(tree.replies[i], id) > 0})

\* C34: for a flat list with distinct ids in which every parent present is
\* less deep than its child, the forest partitions the list: every comment
\* is in the subtree of exactly one root, and is held by exactly one array
\* (the root array or one replies array), once.
C34_Partition ==
  (builds > 0 /\ Layered) =>
    \A k \in 1..Len(flat) :
      /\ Cardinality({r \in RootIds : flat[k].id \in Subtree(r)}) = 1
      /\ ListsHolding(flat[k].id) = 1
      /\ \A a \in Arrays : Occurs(a, flat[k].id) <= 1

\* a list in which a reply to a reply comes before its parent, and an
\* orphan, has been built
C34_Witness ==
  /\ builds > 0
  /\ Layered
  /\ Len(flat) = 3
  /\ \E k \in 1..Len(flat), j \in 1..Len(flat) :
       /\ k < j
       /\ flat[k].parent_id = flat[j].id
       /\ flat[j].parent_id # NullId
       /\ flat[j].parent_id \notin IdsOf(flat)
       /\ Subtree(flat[j].id) = {flat[j].id, flat[k].id}

\* C35: for any flat list, also one in which a comment names itself or one
\* of its descendants as parent, no node of the forest is below itself and
\* every comment of the list is in the subtree of a returned root.
C35_NoCycleNoLoss ==
  builds > 0 =>
    \A k \in 1..Len(flat) :
      /\ flat[k].id \notin Below(flat[k].id)
      /\ \E r \in RootIds : flat[k].id \in Subtree(r)

\* the row of the table a returned comment came from
Depth0(id) == \A k \in 1..Len(flat) : flat[k].id = id => flat[k].depth = 0

\* C36: in the rows getByPost reads, ordered by ascending depth and then
\* cut by the limit, every comment with a parent has its parent among the
\* rows and before it, so the cut promotes no reply: every returned root
\* is a comment of depth 0.
C36_ParentsBeforeChildren ==
  builds > 0 =>
    /\ \A k \in 1..Len(flat) :
         flat[k].parent_id # NullId =>
           \E j \in 1..(k - 1) : flat[j].id = flat[k].parent_id
    /\ \A r \in RootIds : Depth0(r)

\* a thread of three levels was read under a limit of two, by votes: the
\* reply kept sits under its parent and the deepest comment was cut
C36_Witness ==
  /\ builds > 0
  /\ Len(commentRows) >= 3
  /\ commentRows[2].parent_id = 1
  /\ commentRows[3].parent_id = 2
  /\ commentRows[3].score > commentRows[1].score
  /\ Len(flat) = 2
  /\ tree.roots = <<1>>
  /\ tree.replies[1] = <<2>>

\* C37: the controversial key, as the query computes it from the integer
\* counters, is 0 for a comment with no votes, and of two comments with
\* the same upvotes + downvotes the one whose counters are further apart
\* never has the larger key.
C37_ControversialKey ==
  builds > 0 =>
    \A i \in 1..Len(flat), j \in 1..Len(flat) :
      /\ (flat[i].upvotes = 0 /\ flat[i].downvotes = 0) => Controversial(flat[i]) = 0
      /\ ( /\ flat[i].upvotes + flat[i].downvotes = flat[j].upvotes + flat[j].downvotes
           /\ Abs(flat[i].upvotes - flat[i].downvotes)
                <= Abs(flat[j].upvotes - flat[j].downvotes) )
         => Controversial(flat[i]) >= Controversial(flat[j])

\* caller p's getStats begins in this step; it sends the queries
StatBegins(p) == sc'[p].call # sc[p].call
StatQueries(p) == StatBegins(p) /\ sc'[p].pc = "query"

\* C38: getStats sends its queries only when nothing is cached or the
\* cached stats are five minutes old or older, and otherwise returns the
\* cached object; a refresh in which a query fails leaves the cached
\* object and its time as they were; and the time of the cache never
\* moves backwards, however calls overlap.
C38_CacheDiscipline ==
  [][\A p \in StatCallers :
       /\ StatBegins(p) =>
            /\ StatQueries(p) <=>
                 (cachedStats = NoStats \/ statClock - lastCacheTime >= CACHE_DURATION)
            /\ ~StatQueries(p) => (sc'[p].pc = "done" /\ sc'[p].ret = cachedStats)
       /\ (sc[p].pc = "query" /\ sc'[p].pc = "failed") =>
            (cachedStats' = cachedStats /\ lastCacheTime' = lastCacheTime)
       /\ lastCacheTime' >= lastCacheTime]_vars

\* rows of table subscriptions for submolt i
SubscribersOf(subs, i) == {r \in subs : r.submolt_id = i}

\* caller p begins method op in this step
Begins(p, op) ==
  /\ sm[p].pc \in {"idle", "done", "failed"}
  /\ subCalls' = subCalls + 1
  /\ sm'[p] # sm[p]
  /\ sm'[p].op = op
  /\ \A q \in SubCallers \ {p} : sm'[q] = sm[q]

OwnersOf(mods, i) == {r \in mods : r.submolt_id = i /\ r.role = "owner"}

\* C40: after any sequence of create, addModerator and removeModerator calls
\* every created submolt has a moderator row with role 'owner'; a moderator
\* row is written or deleted only for a requester whose role is 'owner' at
\* that moment; and a row with role 'owner' stays, with that role.
C40_OwnerKept ==
  [][/\ SubQuiet' =>
          \A i \in DOMAIN submolts' : OwnersOf(moderators', i) # {}
     /\ \A p \in SubCallers :
          sm[p].pc \in {"upsert", "remove"} /\ sm'[p] # sm[p]
            => RoleOf(moderators, sm[p].submoltId, sm[p].agentId) = "owner"
     /\ \A r \in moderators : r.role = "owner" => r \in moderators']_vars

====
